---------------------------- MODULE Spec2Model ----------------------------
(***************************************************************************)
(* In-memory graph store (graph_database.py), its Cypher-like query        *)
(* subset and the supply-chain trace of graph_rag_engine.py.               *)
(*                                                                         *)
(* Python values are modelled as follows.                                  *)
(*   str    a sequence of one-character strings, so that strip, upper,     *)
(*          split and the regular expressions act on characters            *)
(*   scalar a record tagged with its Python type (Str, Num, PyNone)        *)
(*   dict   a TLA+ function; the node map, whose iteration order is        *)
(*          observable, is a sequence of key/value entries in insertion    *)
(*          order                                                          *)
(*   list   a sequence                                                     *)
(***************************************************************************)
EXTENDS Integers, Sequences, FiniteSets, TLC

VARIABLES
    nodes,          \* self.nodes: insertion-ordered {node_id: {label, properties}}
    relationships,  \* self.relationships: list of {from, to, type, properties}
    node_counter,   \* self.node_counter
    fs,             \* contents of the files export_to_json writes and
                    \* import_from_json reads
    exported,       \* history: per file, the nodes and relationships of the
                    \* store when export_to_json last wrote it, else PyNone
    wf,             \* the certification workflow: the graph node about to
                    \* run and the CertificationState it will receive
    call,           \* the last operation called, with its arguments
    ret,            \* what that operation returned (PyNone when it raised)
    raised          \* the exception that operation raised, or NoException

vars == <<nodes, relationships, node_counter, fs, exported, wf, call, ret,
          raised>>
store == <<nodes, relationships, node_counter>>

\* No run of the certification workflow is in progress.
WorkflowIdle == [pc |-> "idle"]

(***************************************************************************)
(* Bounds                                                                  *)
(***************************************************************************)
\* create_node is called while node_counter is below the bound, and
\* create_relationship while fewer relationships than the bound are stored
MaxCounter == 4
MaxRels == 3
QueryMaxCounter == 3
QueryMaxRels == 2
TraceMaxCounter == 4
TraceMaxRels == 3

(***************************************************************************)
(* Python scalars                                                          *)
(***************************************************************************)
PyNone == [kind |-> "None"]
Str(s) == [kind |-> "str", val |-> s]
Num(n) == [kind |-> "int", val |-> n]
EmptyDict == <<>>
NoException == "none"

(***************************************************************************)
(* String literals                                                         *)
(***************************************************************************)
S_id ==
    <<"i", "d">>
S_name ==
    <<"n", "a", "m", "e">>
S_location ==
    <<"l", "o", "c", "a", "t", "i", "o", "n">>
S_rating ==
    <<"r", "a", "t", "i", "n", "g">>
S_underscore ==
    <<"_">>
S_Supplier ==
    <<"S", "u", "p", "p", "l", "i", "e", "r">>
S_Material ==
    <<"M", "a", "t", "e", "r", "i", "a", "l">>
S_Factory ==
    <<"F", "a", "c", "t", "o", "r", "y">>
S_Certification ==
    <<"C", "e", "r", "t", "i", "f", "i", "c", "a", "t", "i", "o", "n">>
S_Product ==
    <<"P", "r", "o", "d", "u", "c", "t">>
S_PROVIDES ==
    <<"P", "R", "O", "V", "I", "D", "E", "S">>
S_SUPPLIED_TO ==
    <<"S", "U", "P", "P", "L", "I", "E", "D", "_", "T", "O">>
S_MANUFACTURES ==
    <<"M", "A", "N", "U", "F", "A", "C", "T", "U", "R", "E", "S">>
S_HAS_CERTIFICATION ==
    <<"H", "A", "S", "_", "C", "E", "R", "T", "I", "F", "I", "C", "A", "T", "I", "O", "N">>
S_SUP001 ==
    <<"S", "U", "P", "0", "0", "1">>
S_SUP002 ==
    <<"S", "U", "P", "0", "0", "2">>
S_MAT001 ==
    <<"M", "A", "T", "0", "0", "1">>
S_FAC001 ==
    <<"F", "A", "C", "0", "0", "1">>
S_FAC002 ==
    <<"F", "A", "C", "0", "0", "2">>
S_CERT001 ==
    <<"C", "E", "R", "T", "0", "0", "1">>
S_PROD001 ==
    <<"P", "R", "O", "D", "0", "0", "1">>
S_MAT002 ==
    <<"M", "A", "T", "0", "0", "2">>
S_PROD002 ==
    <<"P", "R", "O", "D", "0", "0", "2">>
S_PROD999 ==
    <<"P", "R", "O", "D", "9", "9", "9">>
S_Florence ==
    <<"F", "l", "o", "r", "e", "n", "c", "e">>
S_Florence_Italy ==
    <<"F", "l", "o", "r", "e", "n", "c", "e", ",", " ", "I", "t", "a", "l", "y">>
S_Como_Italy ==
    <<"C", "o", "m", "o", ",", " ", "I", "t", "a", "l", "y">>
S_since ==
    <<"s", "i", "n", "c", "e">>
S_2015 ==
    <<"2", "0", "1", "5">>
S_MATCH ==
    <<"M", "A", "T", "C", "H">>
S_CREATE ==
    <<"C", "R", "E", "A", "T", "E">>
S_RETURN ==
    <<"R", "E", "T", "U", "R", "N">>
S_result ==
    <<"r", "e", "s", "u", "l", "t">>
S_OK ==
    <<"O", "K">>
S_Created ==
    <<"C", "r", "e", "a", "t", "e", "d">>
S_label ==
    <<"l", "a", "b", "e", "l">>
S_relationship ==
    <<"r", "e", "l", "a", "t", "i", "o", "n", "s", "h", "i", "p">>
S_suppliers ==
    <<"s", "u", "p", "p", "l", "i", "e", "r", "s">>
S_Product_ ==
    <<"P", "r", "o", "d", "u", "c", "t", " ">>
S__not_found ==
    <<" ", "n", "o", "t", " ", "f", "o", "u", "n", "d">>

(***************************************************************************)
(* Insertion-ordered dict (the node map)                                   *)
(***************************************************************************)
DictKeys(d) == {d[i].key : i \in 1..Len(d)}
DictHas(d, k) == \E i \in 1..Len(d) : d[i].key = k
DictGet(d, k) == d[CHOOSE i \in 1..Len(d) : d[i].key = k].value
\* d[k] = v: an existing key keeps its position, a new key goes last
DictSet(d, k, v) ==
    IF DictHas(d, k)
    THEN [i \in 1..Len(d) |-> IF d[i].key = k THEN [key |-> k, value |-> v] ELSE d[i]]
    ELSE Append(d, [key |-> k, value |-> v])

\* str(n) for n >= 0, as the f-string of create_node formats the counter
Digit(n) == <<"0", "1", "2", "3", "4", "5", "6", "7", "8", "9">>[n + 1]
RECURSIVE str_int(_)
str_int(n) == IF n < 10 THEN <<Digit(n)>> ELSE str_int(n \div 10) \o <<Digit(n % 10)>>

(***************************************************************************)
(* GraphDatabase.create_node                                               *)
(***************************************************************************)
\* mutant: the counter is incremented before the id is formatted
create_node_id_AfterIncrement(label, properties) ==
    IF S_id \in DOMAIN properties
    THEN properties[S_id]
    ELSE Str(label \o S_underscore \o str_int(node_counter + 1))

\* properties.get('id', f"{label}_{self.node_counter}")
create_node_id(label, properties) ==
    IF S_id \in DOMAIN properties
    THEN properties[S_id]
    ELSE Str(label \o S_underscore \o str_int(node_counter))

\* mutant: an existing node is updated with the new properties, not replaced
create_node_store_Merge(label, properties) ==
    LET node_id == create_node_id(label, properties)
        old == IF DictHas(nodes, node_id) THEN DictGet(nodes, node_id).properties ELSE EmptyDict
    IN DictSet(nodes, node_id, [label |-> label, properties |-> properties @@ old])

\* self.nodes[node_id] = {'label': label, 'properties': properties}
create_node_store(label, properties) ==
    DictSet(nodes, create_node_id(label, properties),
            [label |-> label, properties |-> properties])

create_node(label, properties) ==
    /\ nodes' = create_node_store(label, properties)
    /\ node_counter' = node_counter + 1
    /\ ret' = create_node_id(label, properties)
    /\ raised' = NoException
    /\ call' = [op |-> "create_node", label |-> label, properties |-> properties]
    /\ UNCHANGED <<relationships, fs, exported, wf>>

(***************************************************************************)
(* GraphDatabase.create_relationship                                       *)
(***************************************************************************)
\* mutant: only the source endpoint is looked up
create_relationship_missing_FromOnly(from_id, to_id) ==
    ~DictHas(nodes, from_id)

\* from_id not in self.nodes or to_id not in self.nodes
create_relationship_missing(from_id, to_id) ==
    ~DictHas(nodes, from_id) \/ ~DictHas(nodes, to_id)

\* properties or {}
create_relationship_properties(properties) ==
    IF properties = PyNone \/ properties = EmptyDict THEN EmptyDict ELSE properties

create_relationship(from_id, to_id, rel_type, properties) ==
    /\ call' = [op |-> "create_relationship", from_id |-> from_id, to_id |-> to_id,
                rel_type |-> rel_type, properties |-> properties]
    /\ IF create_relationship_missing(from_id, to_id)
       THEN /\ raised' = "ValueError"
            /\ ret' = PyNone
            /\ UNCHANGED <<nodes, relationships, node_counter, fs, exported, wf>>
       ELSE /\ relationships' = Append(relationships,
                   [from |-> from_id, to |-> to_id, type |-> rel_type,
                    properties |-> create_relationship_properties(properties)])
            /\ raised' = NoException
            /\ ret' = PyNone
            /\ UNCHANGED <<nodes, node_counter, fs, exported, wf>>

(***************************************************************************)
(* GraphDatabase.clear                                                     *)
(***************************************************************************)
\* self.node_counter = 0
clear_node_counter_Kept == node_counter
clear_node_counter == 0

clear ==
    /\ nodes' = <<>>
    /\ relationships' = <<>>
    /\ node_counter' = clear_node_counter
    /\ ret' = PyNone
    /\ raised' = NoException
    /\ call' = [op |-> "clear"]
    /\ UNCHANGED <<fs, exported, wf>>

(***************************************************************************)
(* GraphDatabase.import_from_json                                          *)
(*                                                                         *)
(* A file is absent, holds text that is not JSON, or holds a JSON          *)
(* document: a list, or an object given as the function from its keys.    *)
(***************************************************************************)
FileAbsent == [kind |-> "absent"]
FileGarbage == [kind |-> "garbage"]
FileList == [kind |-> "list"]
FileObject(obj) == [kind |-> "object", val |-> obj]

\* open(filepath, 'r'), json.load(f) and the first data.get: what they raise
import_from_json_error(file) ==
    CASE file.kind = "absent" -> "FileNotFoundError"
      [] file.kind = "garbage" -> "JSONDecodeError"
      [] file.kind = "list" -> "AttributeError"
      [] OTHER -> NoException

\* data.get('nodes', {})
import_from_json_nodes_Merge(data) ==
    nodes \o (IF "nodes" \in DOMAIN data THEN data.nodes ELSE <<>>)
import_from_json_nodes(data) ==
    IF "nodes" \in DOMAIN data THEN data.nodes ELSE <<>>

\* data.get('relationships', [])
import_from_json_relationships(data) ==
    IF "relationships" \in DOMAIN data THEN data.relationships ELSE <<>>

import_from_json(filepath) ==
    /\ call' = [op |-> "import_from_json", filepath |-> filepath]
    /\ ret' = PyNone
    /\ raised' = import_from_json_error(fs[filepath])
    /\ IF import_from_json_error(fs[filepath]) # NoException
       THEN UNCHANGED <<nodes, relationships, node_counter, fs, exported, wf>>
       ELSE /\ nodes' = import_from_json_nodes(fs[filepath].val)
            /\ relationships' = import_from_json_relationships(fs[filepath].val)
            /\ UNCHANGED <<node_counter, fs, exported, wf>>

(***************************************************************************)
(* GraphDatabase.export_to_json                                            *)
(***************************************************************************)
\* the key json.dump writes for a dict key: a str as it is, an int as its
\* decimal digits
json_key(k) == IF k.kind = "int" THEN Str(str_int(k.val)) ELSE k

\* json.dump of self.nodes read back by json.load: the entries in order,
\* every key a str, labels and properties (str keys, str and int values) as
\* they are
json_nodes(d) ==
    [i \in 1..Len(d) |-> [key |-> json_key(d[i].key), value |-> d[i].value]]

\* json.dump of self.relationships read back by json.load
json_relationships_Dropped(rels) == <<>>
json_relationships(rels) == rels

\* data = {'nodes': self.nodes, 'relationships': self.relationships}
export_to_json_data ==
    FileObject([nodes |-> json_nodes(nodes),
                relationships |-> json_relationships(relationships)])

export_to_json(filepath) ==
    /\ call' = [op |-> "export_to_json", filepath |-> filepath]
    /\ fs' = [fs EXCEPT ![filepath] = export_to_json_data]
    /\ exported' = [exported EXCEPT
                       ![filepath] = [nodes |-> nodes, relationships |-> relationships]]
    /\ ret' = PyNone
    /\ raised' = NoException
    /\ UNCHANGED <<nodes, relationships, node_counter, wf>>

(***************************************************************************)
(* str methods and the two regular expressions of _execute_match           *)
(***************************************************************************)
Lowercase ==
    <<"a", "b", "c", "d", "e", "f", "g", "h", "i", "j", "k", "l", "m",
      "n", "o", "p", "q", "r", "s", "t", "u", "v", "w", "x", "y", "z">>
Uppercase ==
    <<"A", "B", "C", "D", "E", "F", "G", "H", "I", "J", "K", "L", "M",
      "N", "O", "P", "Q", "R", "S", "T", "U", "V", "W", "X", "Y", "Z">>
Digits == {"0", "1", "2", "3", "4", "5", "6", "7", "8", "9"}
\* \w
WordChars ==
    {Lowercase[i] : i \in 1..26} \cup {Uppercase[i] : i \in 1..26} \cup Digits \cup {"_"}
\* \s, and what str.strip() removes
Whitespace == {" ", "\t", "\n", "\r"}

\* s[i], or "" past the end of s
At(s, i) == IF i >= 1 /\ i <= Len(s) THEN s[i] ELSE ""

\* s[i:j] with 1-based i and j exclusive
Slice(s, i, j) == IF j <= i THEN <<>> ELSE SubSeq(s, i, j - 1)

\* the end (exclusive) of the longest run of characters of chars that starts at i
RunEnd(s, i, chars) ==
    CHOOSE j \in i..(Len(s) + 1) :
        /\ \A k \in i..(j - 1) : s[k] \in chars
        /\ (j = Len(s) + 1 \/ s[j] \notin chars)

\* the end (exclusive) of the longest run of characters other than c that starts at i
RunEndNot(s, i, c) ==
    CHOOSE j \in i..(Len(s) + 1) :
        /\ \A k \in i..(j - 1) : s[k] # c
        /\ (j = Len(s) + 1 \/ s[j] = c)

\* str.strip(chars)
strip_chars(s, chars) ==
    IF \A k \in 1..Len(s) : s[k] \in chars
    THEN <<>>
    ELSE LET first == CHOOSE i \in 1..Len(s) :
                          s[i] \notin chars /\ \A k \in 1..(i - 1) : s[k] \in chars
             last == CHOOSE j \in 1..Len(s) :
                          s[j] \notin chars /\ \A k \in (j + 1)..Len(s) : s[k] \in chars
         IN SubSeq(s, first, last)

\* str.strip()
strip(s) == strip_chars(s, Whitespace)

\* the upper-case letter of each lower-case letter
UpperOf ==
    [c \in {Lowercase[i] : i \in 1..26} |->
        Uppercase[CHOOSE i \in 1..26 : Lowercase[i] = c]]

\* str.upper()
upper(s) ==
    [k \in 1..Len(s) |-> IF s[k] \in DOMAIN UpperOf THEN UpperOf[s[k]] ELSE s[k]]

\* str.startswith(prefix)
startswith(s, prefix) ==
    Len(s) >= Len(prefix) /\ SubSeq(s, 1, Len(prefix)) = prefix

\* c in s
contains(s, c) == \E k \in 1..Len(s) : s[k] = c

\* str.split(sep) for a one-character sep
RECURSIVE split(_, _)
split(s, sep) ==
    IF ~contains(s, sep)
    THEN <<s>>
    ELSE LET j == RunEndNot(s, 1, sep)
         IN <<Slice(s, 1, j)>> \o split(Slice(s, j + 1, Len(s) + 1), sep)

\* node_pattern = r'\((\w+):(\w+)(?:\s*\{([^}]+)\})?\)' tried at position i:
\* <<>> when it does not match there, else one record with the end
\* (exclusive) of the match and its three groups
match_node_pattern(s, i) ==
    LET v_end == RunEnd(s, i + 1, WordChars)
        l_end == RunEnd(s, v_end + 1, WordChars)
        brace == RunEnd(s, l_end, Whitespace)
        p_end == RunEndNot(s, brace + 1, "}")
        head == /\ At(s, i) = "("
                /\ v_end > i + 1
                /\ At(s, v_end) = ":"
                /\ l_end > v_end + 1
        with_props == /\ At(s, brace) = "{"
                      /\ p_end > brace + 1
                      /\ At(s, p_end) = "}"
                      /\ At(s, p_end + 1) = ")"
    IN IF ~head THEN <<>>
       ELSE IF with_props
       THEN <<[end |-> p_end + 2,
               groups |-> <<Slice(s, i + 1, v_end), Slice(s, v_end + 1, l_end),
                            Slice(s, brace + 1, p_end)>>]>>
       ELSE IF At(s, l_end) = ")"
       THEN <<[end |-> l_end + 1,
               groups |-> <<Slice(s, i + 1, v_end), Slice(s, v_end + 1, l_end), <<>> >>]>>
       ELSE <<>>

\* rel_pattern = r'-\[:(\w+)\]->' tried at position i
match_rel_pattern(s, i) ==
    LET t_end == RunEnd(s, i + 3, WordChars)
    IN IF /\ At(s, i) = "-"
          /\ At(s, i + 1) = "["
          /\ At(s, i + 2) = ":"
          /\ t_end > i + 3
          /\ At(s, t_end) = "]"
          /\ At(s, t_end + 1) = "-"
          /\ At(s, t_end + 2) = ">"
       THEN <<[end |-> t_end + 3, groups |-> Slice(s, i + 3, t_end)]>>
       ELSE <<>>

\* re.findall: the groups of the non-overlapping matches, left to right
RECURSIVE findall_node_pattern(_, _)
findall_node_pattern(s, i) ==
    IF i > Len(s) THEN <<>>
    ELSE LET m == match_node_pattern(s, i)
         IN IF m = <<>>
            THEN findall_node_pattern(s, i + 1)
            ELSE <<m[1].groups>> \o findall_node_pattern(s, m[1].end)

RECURSIVE findall_rel_pattern(_, _)
findall_rel_pattern(s, i) ==
    IF i > Len(s) THEN <<>>
    ELSE LET m == match_rel_pattern(s, i)
         IN IF m = <<>>
            THEN findall_rel_pattern(s, i + 1)
            ELSE <<m[1].groups>> \o findall_rel_pattern(s, m[1].end)

(***************************************************************************)
(* GraphDatabase._parse_properties                                         *)
(***************************************************************************)
\* key, value = pair.split(':', 1)
parse_pair_key(pair) == strip(Slice(pair, 1, RunEndNot(pair, 1, ":")))

\* value.strip().strip('"').strip("'")
parse_pair_value(pair) ==
    strip_chars(strip_chars(strip(Slice(pair, RunEndNot(pair, 1, ":") + 1, Len(pair) + 1)),
                            {"\""}), {"'"})

\* the loop over the pairs; a later pair overwrites an earlier one with its key
RECURSIVE parse_pairs(_, _)
parse_pairs(pairs, props) ==
    IF pairs = <<>> THEN props
    ELSE IF contains(Head(pairs), ":")
    THEN parse_pairs(Tail(pairs),
                     (parse_pair_key(Head(pairs)) :> parse_pair_value(Head(pairs))) @@ props)
    ELSE parse_pairs(Tail(pairs), props)

_parse_properties(props_str) == parse_pairs(split(props_str, ","), EmptyDict)

(***************************************************************************)
(* GraphDatabase._execute_match                                            *)
(***************************************************************************)
\* {'id': nid, **node['properties']}
Flatten(nid, properties) == properties @@ (S_id :> nid)

\* dict.get(k) == v for a str v
GetEquals(d, k, v) == k \in DOMAIN d /\ d[k] = Str(v)

\* all(n[var_name].get(k) == v for k, v in prop_filters.items())
match_node_filters(flat, prop_filters) ==
    \A k \in DOMAIN prop_filters : GetEquals(flat, k, prop_filters[k])

\* the single-node branch: one binding per node of the label that passes
RECURSIVE match_single(_, _, _, _)
match_single(i, var_name, label, props) ==
    IF i > Len(nodes) THEN <<>>
    ELSE LET flat == Flatten(nodes[i].key, nodes[i].value.properties)
             keep == /\ nodes[i].value.label = label
                     /\ (props # <<>> =>
                            match_node_filters(flat, _parse_properties(props)))
         IN (IF keep THEN <<(var_name :> flat)>> ELSE <<>>)
            \o match_single(i + 1, var_name, label, props)

\* mutant: the label of the source node is not compared
match_rel_keep_AnySource(rel, label1, label2, rel_type) ==
    /\ rel.type = rel_type
    /\ DictHas(nodes, rel.from)
    /\ DictHas(nodes, rel.to)
    /\ DictGet(nodes, rel.to).label = label2

\* whether the relationship branch emits a binding for rel
match_rel_keep(rel, label1, label2, rel_type) ==
    /\ rel.type = rel_type
    /\ DictHas(nodes, rel.from)
    /\ DictHas(nodes, rel.to)
    /\ DictGet(nodes, rel.from).label = label1
    /\ DictGet(nodes, rel.to).label = label2

\* {var1: {...}, var2: {...}, 'relationship': rel['type']}: a later key of
\* the literal overwrites an equal earlier one
match_rel_binding(rel, var1, var2) ==
    (S_relationship :> rel.type)
    @@ (var2 :> Flatten(rel.to, DictGet(nodes, rel.to).properties))
    @@ (var1 :> Flatten(rel.from, DictGet(nodes, rel.from).properties))

\* the relationship branch: one binding per kept relationship, in list order
RECURSIVE match_rels(_, _, _, _, _, _)
match_rels(i, var1, label1, rel_type, var2, label2) ==
    IF i > Len(relationships) THEN <<>>
    ELSE (IF match_rel_keep(relationships[i], label1, label2, rel_type)
          THEN <<match_rel_binding(relationships[i], var1, var2)>>
          ELSE <<>>)
         \o match_rels(i + 1, var1, label1, rel_type, var2, label2)

\* which branch runs, from the numbers of node and relationship patterns found
match_branch(n_nodes, n_rels) ==
    IF n_nodes = 0 THEN "none"
    ELSE IF n_nodes = 1 /\ n_rels = 0 THEN "single"
    ELSE IF n_nodes >= 2 /\ n_rels > 0 THEN "relationship"
    ELSE "none"

_execute_match(query) ==
    LET nodes_match == findall_node_pattern(query, 1)
        rels_match == findall_rel_pattern(query, 1)
        branch == match_branch(Len(nodes_match), Len(rels_match))
    IN IF branch = "single"
       THEN match_single(1, nodes_match[1][1], nodes_match[1][2], nodes_match[1][3])
       ELSE IF branch = "relationship"
       THEN match_rels(1, nodes_match[1][1], nodes_match[1][2], rels_match[1],
                       nodes_match[2][1], nodes_match[2][2])
       ELSE <<>>

(***************************************************************************)
(* GraphDatabase._execute_create and GraphDatabase.execute_cypher          *)
(***************************************************************************)
_execute_create(query) == <<(S_result :> S_Created)>>

\* mutant: the query is matched as it was passed in
execute_cypher_strip_Missing(query) == query

\* query = query.strip()
execute_cypher_strip(query) == strip(query)

\* query.upper().startswith(keyword)
execute_cypher_startswith(query, keyword) == startswith(upper(query), keyword)

execute_cypher_result(query) ==
    LET q == execute_cypher_strip(query)
    IN IF execute_cypher_startswith(q, S_MATCH) THEN _execute_match(q)
       ELSE IF execute_cypher_startswith(q, S_CREATE) THEN _execute_create(q)
       ELSE IF execute_cypher_startswith(q, S_RETURN) THEN <<(S_result :> S_OK)>>
       ELSE <<>>

execute_cypher(query) ==
    /\ call' = [op |-> "execute_cypher", query |-> query]
    /\ ret' = execute_cypher_result(query)
    /\ raised' = NoException
    /\ UNCHANGED <<nodes, relationships, node_counter, fs, exported, wf>>

(***************************************************************************)
(* GraphRAGEngine.trace_supply_chain                                       *)
(***************************************************************************)
\* bool(v) of a properties dict or None
TruthyDict(v) == v # PyNone /\ v # EmptyDict

\* bool(v) of a node id or None
TruthyId(v) == v # PyNone /\ v # Str(<<>>) /\ v # Num(0)

\* rel['to'] == product_id and rel['type'] == 'MANUFACTURES'
trace_manufactures_AnyTarget(rel, product_id) ==
    rel.type = S_MANUFACTURES
trace_manufactures(rel, product_id) ==
    rel.to = product_id /\ rel.type = S_MANUFACTURES

\* the certification loop run for one factory: the properties of the target
\* of each of its HAS_CERTIFICATION relationships, in list order
RECURSIVE trace_factory_certifications(_, _)
trace_factory_certifications(i, factory_id) ==
    IF i > Len(relationships) THEN <<>>
    ELSE (IF /\ relationships[i].from = factory_id
             /\ relationships[i].type = S_HAS_CERTIFICATION
             /\ DictHas(nodes, relationships[i].to)
          THEN <<DictGet(nodes, relationships[i].to).properties>>
          ELSE <<>>)
         \o trace_factory_certifications(i + 1, factory_id)

\* the first loop, from relationship i on, entered with trace['factory'] =
\* factory and trace['certifications'] = certifications: every MANUFACTURES
\* relationship into the product whose source exists assigns trace['factory']
\* and appends that source's certifications
RECURSIVE trace_factory_loop(_, _, _, _)
trace_factory_loop(i, product_id, factory, certifications) ==
    IF i > Len(relationships)
    THEN [factory |-> factory, certifications |-> certifications]
    ELSE IF /\ trace_manufactures(relationships[i], product_id)
            /\ DictHas(nodes, relationships[i].from)
    THEN trace_factory_loop(i + 1, product_id,
             DictGet(nodes, relationships[i].from).properties,
             certifications \o trace_factory_certifications(1, relationships[i].from))
    ELSE trace_factory_loop(i + 1, product_id, factory, certifications)

\* the loop with the break: the source of the first MANUFACTURES relationship
\* into the product, or None
trace_factory_id(product_id) ==
    IF \E i \in 1..Len(relationships) : trace_manufactures(relationships[i], product_id)
    THEN relationships[CHOOSE i \in 1..Len(relationships) :
             /\ trace_manufactures(relationships[i], product_id)
             /\ \A k \in 1..(i - 1) : ~trace_manufactures(relationships[k], product_id)].from
    ELSE PyNone

\* sup_rel['to'] == rel['from'] and sup_rel['type'] == 'PROVIDES'
trace_provides_AnyMaterial(sup_rel, material_id) ==
    sup_rel.type = S_PROVIDES
trace_provides(sup_rel, material_id) ==
    sup_rel.to = material_id /\ sup_rel.type = S_PROVIDES

\* material_suppliers: the properties of the source of each PROVIDES
\* relationship into the material, in list order
RECURSIVE trace_material_suppliers(_, _)
trace_material_suppliers(i, material_id) ==
    IF i > Len(relationships) THEN <<>>
    ELSE (IF /\ trace_provides(relationships[i], material_id)
             /\ DictHas(nodes, relationships[i].from)
          THEN <<DictGet(nodes, relationships[i].from).properties>>
          ELSE <<>>)
         \o trace_material_suppliers(i + 1, material_id)

\* material_info: a copy of the material's properties with the key
\* 'suppliers' set
trace_material_info(material_id) ==
    (S_suppliers :> trace_material_suppliers(1, material_id))
    @@ DictGet(nodes, material_id).properties

\* the materials loop, from relationship i on: one material_info for each
\* SUPPLIED_TO relationship into the factory whose source exists
RECURSIVE trace_materials(_, _)
trace_materials(i, factory_id) ==
    IF i > Len(relationships) THEN <<>>
    ELSE (IF /\ relationships[i].to = factory_id
             /\ relationships[i].type = S_SUPPLIED_TO
             /\ DictHas(nodes, relationships[i].from)
          THEN <<trace_material_info(relationships[i].from)>>
          ELSE <<>>)
         \o trace_materials(i + 1, factory_id)

\* trace['suppliers'] before the duplicates are removed: the material_suppliers
\* of the materials, one after the other
RECURSIVE trace_all_suppliers(_)
trace_all_suppliers(materials) ==
    IF materials = <<>> THEN <<>>
    ELSE Head(materials)[S_suppliers] \o trace_all_suppliers(Tail(materials))

\* supplier.get('id')
trace_supplier_id(supplier) ==
    IF S_id \in DOMAIN supplier THEN supplier[S_id] ELSE PyNone

\* the loop that removes duplicates: a supplier is kept when its id was not seen
RECURSIVE trace_unique_suppliers(_, _)
trace_unique_suppliers(suppliers, seen) ==
    IF suppliers = <<>> THEN <<>>
    ELSE IF trace_supplier_id(Head(suppliers)) \in seen
    THEN trace_unique_suppliers(Tail(suppliers), seen)
    ELSE <<Head(suppliers)>>
         \o trace_unique_suppliers(Tail(suppliers),
                                   seen \cup {trace_supplier_id(Head(suppliers))})

\* return {"error": f"Product {product_id} not found"}
trace_supply_chain_not_found_EmptyTrace(product_id) ==
    [product |-> EmptyDict, factory |-> PyNone, materials |-> <<>>,
     suppliers |-> <<>>, certifications |-> <<>>]
trace_supply_chain_not_found(product_id) ==
    [error |-> S_Product_ \o product_id.val \o S__not_found]

trace_supply_chain_result(product_id) ==
    IF ~DictHas(nodes, product_id)
    THEN trace_supply_chain_not_found(product_id)
    ELSE LET first == trace_factory_loop(1, product_id, PyNone, <<>>)
             factory_id == trace_factory_id(product_id)
             materials == IF TruthyDict(first.factory) /\ TruthyId(factory_id)
                          THEN trace_materials(1, factory_id)
                          ELSE <<>>
         IN [product |-> DictGet(nodes, product_id).properties,
             factory |-> first.factory,
             materials |-> materials,
             suppliers |-> trace_unique_suppliers(trace_all_suppliers(materials), {}),
             certifications |-> first.certifications]

trace_supply_chain(product_id) ==
    /\ call' = [op |-> "trace_supply_chain", product_id |-> product_id]
    /\ ret' = trace_supply_chain_result(product_id)
    /\ raised' = NoException
    /\ UNCHANGED <<nodes, relationships, node_counter, fs, exported, wf>>

(***************************************************************************)
(* GraphDatabase.get_all_nodes                                             *)
(***************************************************************************)
\* bool(label) of a label or None
TruthyLabel(label) == label # PyNone /\ label # <<>>

\* node['label'] == label
get_all_nodes_keep_All(node, label) == TRUE
get_all_nodes_keep(node, label) == node.label = label

\* {'id': nid, 'label': node['label'], **node['properties']}
get_all_nodes_labelled(nid, node) ==
    node.properties @@ (S_id :> nid) @@ (S_label :> Str(node.label))

\* the comprehension over self.nodes.items(), from entry i on
RECURSIVE get_all_nodes_list(_, _)
get_all_nodes_list(i, label) ==
    IF i > Len(nodes) THEN <<>>
    ELSE (IF ~TruthyLabel(label)
          THEN <<get_all_nodes_labelled(nodes[i].key, nodes[i].value)>>
          ELSE IF get_all_nodes_keep(nodes[i].value, label)
          THEN <<Flatten(nodes[i].key, nodes[i].value.properties)>>
          ELSE <<>>)
         \o get_all_nodes_list(i + 1, label)

get_all_nodes(label) ==
    /\ call' = [op |-> "get_all_nodes", label |-> label]
    /\ ret' = get_all_nodes_list(1, label)
    /\ raised' = NoException
    /\ UNCHANGED <<nodes, relationships, node_counter, fs, exported, wf>>

(***************************************************************************)
(* GraphRAGEngine._get_node_relationships                                  *)
(***************************************************************************)
\* not rel_types or rel['type'] in rel_types
rel_type_passes_Always(rel, rel_types) == TRUE
rel_type_passes(rel, rel_types) ==
    rel_types = <<>> \/ \E i \in 1..Len(rel_types) : rel_types[i] = rel.type

\* node['properties'].get('name', other_id)
display_name(node, other_id) ==
    IF S_name \in DOMAIN node.properties THEN node.properties[S_name] ELSE other_id

\* the record appended to relationships['outgoing']
outgoing_record(rel) ==
    [type |-> rel.type, to |-> rel.to,
     to_label |-> DictGet(nodes, rel.to).label,
     to_name |-> display_name(DictGet(nodes, rel.to), rel.to)]

\* the record appended to relationships['incoming']
incoming_record(rel) ==
    [type |-> rel.type, from |-> rel.from,
     from_label |-> DictGet(nodes, rel.from).label,
     from_name |-> display_name(DictGet(nodes, rel.from), rel.from)]

\* relationships['outgoing'] after the loop, from relationship i on
RECURSIVE node_relationships_outgoing(_, _, _)
node_relationships_outgoing(i, node_id, rel_types) ==
    IF i > Len(relationships) THEN <<>>
    ELSE (IF /\ relationships[i].from = node_id
             /\ rel_type_passes(relationships[i], rel_types)
             /\ DictHas(nodes, relationships[i].to)
          THEN <<outgoing_record(relationships[i])>>
          ELSE <<>>)
         \o node_relationships_outgoing(i + 1, node_id, rel_types)

\* relationships['incoming'] after the loop, from relationship i on
RECURSIVE node_relationships_incoming(_, _, _)
node_relationships_incoming(i, node_id, rel_types) ==
    IF i > Len(relationships) THEN <<>>
    ELSE (IF /\ relationships[i].to = node_id
             /\ rel_type_passes(relationships[i], rel_types)
             /\ DictHas(nodes, relationships[i].from)
          THEN <<incoming_record(relationships[i])>>
          ELSE <<>>)
         \o node_relationships_incoming(i + 1, node_id, rel_types)

_get_node_relationships(node_id, rel_types) ==
    /\ call' = [op |-> "_get_node_relationships", node_id |-> node_id,
                rel_types |-> rel_types]
    /\ ret' = [outgoing |-> node_relationships_outgoing(1, node_id, rel_types),
               incoming |-> node_relationships_incoming(1, node_id, rel_types)]
    /\ raised' = NoException
    /\ UNCHANGED <<nodes, relationships, node_counter, fs, exported, wf>>

(***************************************************************************)
(* GraphDatabase.get_schema                                                *)
(***************************************************************************)
\* set(node['label'] for node in self.nodes.values())
get_schema_labels == {nodes[i].value.label : i \in 1..Len(nodes)}

\* set(rel['type'] for rel in self.relationships)
get_schema_rel_types == {relationships[i].type : i \in 1..Len(relationships)}

\* list(s): the elements of a set, each once, in an order the set decides
ListsOf(s) ==
    {l \in [1..Cardinality(s) -> s] : \A i, j \in 1..Cardinality(s) : l[i] = l[j] => i = j}

\* len(self.nodes)
get_schema_node_count_Counter == node_counter
get_schema_node_count == Len(nodes)

get_schema ==
    /\ call' = [op |-> "get_schema"]
    /\ \E node_labels \in ListsOf(get_schema_labels),
          relationship_types \in ListsOf(get_schema_rel_types) :
           ret' = [node_labels |-> node_labels,
                   relationship_types |-> relationship_types,
                   node_count |-> get_schema_node_count,
                   relationship_count |-> Len(relationships)]
    /\ raised' = NoException
    /\ UNCHANGED <<nodes, relationships, node_counter, fs, exported, wf>>

(***************************************************************************)
(* Inputs.  Each is a finite list the actions draw their arguments from.   *)
(***************************************************************************)
P_SUP001 == (S_id :> Str(S_SUP001)) @@ (S_location :> Str(S_Florence_Italy))
P_SUP001_again == (S_id :> Str(S_SUP001)) @@ (S_name :> Str(S_Florence))
P_MAT001 == (S_id :> Str(S_MAT001)) @@ (S_name :> Str(S_Como_Italy))
P_since == (S_since :> Str(S_2015))

StoreNodeInputs ==
    << <<S_Supplier, P_SUP001>>,
       <<S_Material, P_SUP001_again>>,
       <<S_Material, P_MAT001>>,
       <<S_Supplier, EmptyDict>> >>

StoreRelInputs ==
    << <<Str(S_SUP001), Str(S_MAT001), S_PROVIDES, P_since>>,
       <<Str(S_MAT001), Str(S_SUP001), S_SUPPLIED_TO, PyNone>>,
       <<Str(S_SUP001), Str(S_PROD999), S_PROVIDES, PyNone>>,
       <<Str(S_PROD999), Str(S_MAT001), S_PROVIDES, P_since>> >>

Paths == {"supply_chain_graph.json"}

SnapshotNode(id, label, properties) ==
    [key |-> Str(id), value |-> [label |-> label, properties |-> properties]]
SnapshotRel(from_id, to_id, rel_type) ==
    [from |-> Str(from_id), to |-> Str(to_id), type |-> rel_type, properties |-> EmptyDict]

StoreFiles ==
    << FileAbsent,
       FileGarbage,
       FileList,
       FileObject([nodes |-> <<SnapshotNode(S_FAC001, S_Factory, (S_id :> Str(S_FAC001))),
                               SnapshotNode(S_PROD001, S_Product, (S_id :> Str(S_PROD001)))>>,
                   relationships |-> <<SnapshotRel(S_FAC001, S_PROD001, S_MANUFACTURES)>>]),
       FileObject([nodes |-> <<SnapshotNode(S_FAC001, S_Factory, (S_id :> Str(S_FAC001)))>>]),
       FileObject([relationships |-> <<SnapshotRel(S_FAC001, S_PROD001, S_MANUFACTURES)>>]),
       FileObject([nodes |-> <<SnapshotNode(S_FAC001, S_Factory, (S_id :> Str(S_FAC001)))>>,
                   relationships |-> <<SnapshotRel(S_FAC001, S_PROD001, S_MANUFACTURES)>>]) >>

(***************************************************************************)
(* The store under construction: create_node, create_relationship, clear   *)
(* and import_from_json from an empty store.                               *)
(***************************************************************************)
InitStore ==
    /\ nodes = <<>>
    /\ relationships = <<>>
    /\ node_counter = 0
    /\ wf = WorkflowIdle
    /\ call = [op |-> "__init__"]
    /\ ret = PyNone
    /\ raised = NoException

Init ==
    /\ InitStore
    /\ \E i \in 1..Len(StoreFiles) : fs = [p \in Paths |-> StoreFiles[i]]
    /\ exported = [p \in Paths |-> PyNone]

CreateNode ==
    /\ node_counter < MaxCounter
    /\ \E i \in 1..Len(StoreNodeInputs) :
           create_node(StoreNodeInputs[i][1], StoreNodeInputs[i][2])

CreateRelationship ==
    /\ Len(relationships) < MaxRels
    /\ \E i \in 1..Len(StoreRelInputs) :
           create_relationship(StoreRelInputs[i][1], StoreRelInputs[i][2],
                               StoreRelInputs[i][3], StoreRelInputs[i][4])

Clear == clear

ImportFromJson == \E p \in Paths : import_from_json(p)

Next ==
    \/ CreateNode
    \/ CreateRelationship
    \/ Clear
    \/ ImportFromJson

Spec == Init /\ [][Next]_vars

(***************************************************************************)
(* Query texts                                                             *)
(***************************************************************************)
Q_suppliers ==
    <<"M", "A", "T", "C", "H", " ", "(", "s", ":", "S", "u", "p", "p", "l", "i", "e", "r", ")", " ", "R", "E", "T", "U", "R", "N", " ", "s">>
Q_florence_italy ==
    <<"M", "A", "T", "C", "H", " ", "(", "s", ":", "S", "u", "p", "p", "l", "i", "e", "r", " ", "{", "l", "o", "c", "a", "t", "i", "o", "n", ":", " ", "\"", "F", "l", "o", "r", "e", "n", "c", "e", ",", " ", "I", "t", "a", "l", "y", "\"", "}", ")", " ", "R", "E", "T", "U", "R", "N", " ", "s">>
Q_florence ==
    <<"M", "A", "T", "C", "H", " ", "(", "s", ":", "S", "u", "p", "p", "l", "i", "e", "r", " ", "{", "n", "a", "m", "e", ":", " ", "\"", "F", "l", "o", "r", "e", "n", "c", "e", "\"", "}", ")", " ", "R", "E", "T", "U", "R", "N", " ", "s">>
Q_rating ==
    <<"M", "A", "T", "C", "H", " ", "(", "s", ":", "S", "u", "p", "p", "l", "i", "e", "r", " ", "{", "r", "a", "t", "i", "n", "g", ":", " ", "5", "}", ")", " ", "R", "E", "T", "U", "R", "N", " ", "s">>
Q_provides ==
    <<"M", "A", "T", "C", "H", " ", "(", "s", ":", "S", "u", "p", "p", "l", "i", "e", "r", ")", "-", "[", ":", "P", "R", "O", "V", "I", "D", "E", "S", "]", "-", ">", "(", "m", ":", "M", "a", "t", "e", "r", "i", "a", "l", ")", " ", "R", "E", "T", "U", "R", "N", " ", "s", ",", " ", "m">>
Q_provides_filtered ==
    <<"M", "A", "T", "C", "H", " ", "(", "s", ":", "S", "u", "p", "p", "l", "i", "e", "r", " ", "{", "n", "a", "m", "e", ":", " ", "\"", "F", "l", "o", "r", "e", "n", "c", "e", "\"", "}", ")", "-", "[", ":", "P", "R", "O", "V", "I", "D", "E", "S", "]", "-", ">", "(", "m", ":", "M", "a", "t", "e", "r", "i", "a", "l", " ", "{", "n", "a", "m", "e", ":", " ", "\"", "S", "i", "l", "k", "\"", "}", ")", " ", "R", "E", "T", "U", "R", "N", " ", "s", ",", " ", "m">>
Q_multi_hop ==
    <<"M", "A", "T", "C", "H", " ", "(", "s", ":", "S", "u", "p", "p", "l", "i", "e", "r", ")", "-", "[", ":", "P", "R", "O", "V", "I", "D", "E", "S", "]", "-", ">", "(", "m", ":", "M", "a", "t", "e", "r", "i", "a", "l", ")", "-", "[", ":", "S", "U", "P", "P", "L", "I", "E", "D", "_", "T", "O", "]", "-", ">", "(", "f", ":", "F", "a", "c", "t", "o", "r", "y", ")", " ", "R", "E", "T", "U", "R", "N", " ", "s", ",", " ", "m", ",", " ", "f">>
Q_bananas ==
    <<"b", "a", "n", "a", "n", "a", "s">>
Q_create ==
    <<"C", "R", "E", "A", "T", "E", " ", "(", "n", ":", "S", "u", "p", "p", "l", "i", "e", "r", " ", "{", "n", "a", "m", "e", ":", " ", "\"", "N", "e", "w", "\"", "}", ")">>
Q_return ==
    <<" ", " ", "r", "e", "t", "u", "r", "n", " ", "1">>
Q_match_bananas ==
    <<"m", "a", "t", "c", "h", " ", "b", "a", "n", "a", "n", "a", "s">>
Q_match_dangling ==
    <<"M", "A", "T", "C", "H", " ", "(", "s", ":", "S", "u", "p", "p", "l", "i", "e", "r", ")", "-", "[", ":", "P", "R", "O", "V", "I", "D", "E", "S", "]", "-", ">", " ", "R", "E", "T", "U", "R", "N", " ", "s">>

(***************************************************************************)
(* The store queried: create_node, create_relationship and execute_cypher  *)
(***************************************************************************)
P_SUP002 ==
    (S_id :> Str(S_SUP002)) @@ (S_name :> Str(S_Florence)) @@ (S_rating :> Num(5))

QueryNodeInputs ==
    << <<S_Supplier, P_SUP001>>,
       <<S_Supplier, P_SUP002>>,
       <<S_Material, P_MAT001>>,
       <<S_Material, P_SUP001_again>> >>

QueryRelInputs ==
    << <<Str(S_SUP001), Str(S_MAT001), S_PROVIDES, P_since>>,
       <<Str(S_SUP002), Str(S_MAT001), S_PROVIDES, PyNone>>,
       <<Str(S_MAT001), Str(S_SUP001), S_PROVIDES, PyNone>>,
       <<Str(S_SUP001), Str(S_MAT001), S_SUPPLIED_TO, PyNone>> >>

Queries ==
    <<Q_suppliers, Q_florence_italy, Q_florence, Q_rating, Q_provides,
      Q_provides_filtered, Q_multi_hop, Q_bananas, Q_create, Q_return,
      Q_match_bananas, Q_match_dangling>>

InitQuery ==
    /\ InitStore
    /\ fs = [p \in Paths |-> FileAbsent]
    /\ exported = [p \in Paths |-> PyNone]

QueryCreateNode ==
    /\ node_counter < QueryMaxCounter
    /\ \E i \in 1..Len(QueryNodeInputs) :
           create_node(QueryNodeInputs[i][1], QueryNodeInputs[i][2])

QueryCreateRelationship ==
    /\ Len(relationships) < QueryMaxRels
    /\ \E i \in 1..Len(QueryRelInputs) :
           create_relationship(QueryRelInputs[i][1], QueryRelInputs[i][2],
                               QueryRelInputs[i][3], QueryRelInputs[i][4])

ExecuteCypher == \E i \in 1..Len(Queries) : execute_cypher(Queries[i])

NextQuery ==
    \/ QueryCreateNode
    \/ QueryCreateRelationship
    \/ ExecuteCypher

SpecQuery == InitQuery /\ [][NextQuery]_vars

(***************************************************************************)
(* Properties of the store                                                 *)
(***************************************************************************)
StoreUnchanged ==
    /\ nodes' = nodes
    /\ relationships' = relationships
    /\ node_counter' = node_counter

\* C1: create_relationship called with a from or to id that is not the id of
\* a node in the store raises, and the node map, the relationship list and
\* the id counter are after the call what they were before it.
C1_RejectedAtomically ==
    [][(/\ call'.op = "create_relationship"
        /\ (~DictHas(nodes, call'.from_id) \/ ~DictHas(nodes, call'.to_id)))
       => (raised' = "ValueError" /\ StoreUnchanged)]_vars

\* a rejected create_relationship on a store that holds nodes and relationships
C1_Witness ==
    /\ call.op = "create_relationship"
    /\ raised = "ValueError"
    /\ Len(nodes) >= 2
    /\ Len(relationships) >= 1

\* C2: in every reachable state the from id and the to id of every stored
\* relationship are ids of nodes in the store.
C2_ReferentialIntegrity ==
    \A i \in 1..Len(relationships) :
        /\ DictHas(nodes, relationships[i].from)
        /\ DictHas(nodes, relationships[i].to)

\* C9: create_node with an explicit id that a node of the store already has
\* leaves exactly one node at that id, with the new label and exactly the new
\* properties; the number of nodes and the relationship list do not change.
C9_OverwriteExplicitId ==
    [][(/\ call'.op = "create_node"
        /\ S_id \in DOMAIN call'.properties
        /\ DictHas(nodes, call'.properties[S_id]))
       => (/\ Cardinality({i \in 1..Len(nodes') :
                             nodes'[i].key = call'.properties[S_id]}) = 1
           /\ DictGet(nodes', call'.properties[S_id])
                = [label |-> call'.label, properties |-> call'.properties]
           /\ Len(nodes') = Len(nodes)
           /\ relationships' = relationships)]_vars

\* SUP001 was created twice, the second time as a Material, with a
\* relationship stored in between
C9_Witness ==
    /\ call.op = "create_node"
    /\ call.properties = P_SUP001_again
    /\ Len(nodes) = 2
    /\ node_counter = 3
    /\ DictHas(nodes, Str(S_SUP001))
    /\ DictGet(nodes, Str(S_SUP001)).label = S_Material
    /\ Len(relationships) >= 1

\* C10: create_node returns the id field of properties when there is one and
\* otherwise label_counter with the counter value before the call; after the
\* call the node at the returned id has the given label and properties, and
\* the counter is strictly larger than before.
C10_ReturnedId ==
    [][call'.op = "create_node"
       => (/\ ret' = IF S_id \in DOMAIN call'.properties
                     THEN call'.properties[S_id]
                     ELSE Str(call'.label \o <<"_">> \o str_int(node_counter))
           /\ DictHas(nodes', ret')
           /\ DictGet(nodes', ret')
                = [label |-> call'.label, properties |-> call'.properties]
           /\ node_counter' > node_counter)]_vars

\* a node created without an id after two other nodes: Supplier_2
C10_Witness ==
    /\ call.op = "create_node"
    /\ S_id \notin DOMAIN call.properties
    /\ ret = Str(S_Supplier \o <<"_", "2">>)
    /\ DictHas(nodes, ret)
    /\ node_counter = 3

(***************************************************************************)
(* Properties of execute_cypher                                            *)
(***************************************************************************)
\* the first keyword of a query text, as execute_cypher reads it
StartsWithKeyword(query, keyword) == startswith(upper(strip(query)), keyword)

C6_MultiHopIsEmpty ==
    (call.op = "execute_cypher" /\ call.query = Q_multi_hop) => ret = <<>>

\* two lists of bindings hold the same bindings, whatever their order
SameBindings(a, b) ==
    /\ Len(a) = Len(b)
    /\ \A i \in 1..Len(a) : \E j \in 1..Len(b) : b[j] = a[i]
    /\ \A j \in 1..Len(b) : \E i \in 1..Len(a) : a[i] = b[j]

\* the single-node queries of Queries, read as the grammar intends them
SingleNodeQueries ==
    << [text |-> Q_suppliers, var |-> <<"s">>, label |-> S_Supplier,
        filters |-> EmptyDict],
       [text |-> Q_florence_italy, var |-> <<"s">>, label |-> S_Supplier,
        filters |-> (S_location :> Str(S_Florence_Italy))],
       [text |-> Q_florence, var |-> <<"s">>, label |-> S_Supplier,
        filters |-> (S_name :> Str(S_Florence))],
       [text |-> Q_rating, var |-> <<"s">>, label |-> S_Supplier,
        filters |-> (S_rating :> Num(5))] >>

\* the bindings a single-node query selects: the label and every filter value equal
SelectedBindings(q) ==
    LET kept == SelectSeq(nodes, LAMBDA n :
                    /\ n.value.label = q.label
                    /\ \A k \in DOMAIN q.filters :
                          /\ k \in DOMAIN n.value.properties
                          /\ n.value.properties[k] = q.filters[k])
    IN [i \in 1..Len(kept) |->
           (q.var :> (kept[i].value.properties @@ (S_id :> kept[i].key)))]

\* C7: a single-node query returns one binding {var: {id, ...properties}} for
\* each node of the label whose properties equal every filter value, and no
\* other binding, also for a filter value with a comma and for a number.
C7_SingleNodeQuery ==
    call.op = "execute_cypher" =>
        \A i \in 1..Len(SingleNodeQueries) :
            call.query = SingleNodeQueries[i].text
            => SameBindings(ret, SelectedBindings(SingleNodeQueries[i]))

\* the two-node queries of Queries, read as the grammar intends them
TwoNodeQueries ==
    << [text |-> Q_provides, var1 |-> <<"s">>, label1 |-> S_Supplier,
        type |-> S_PROVIDES, var2 |-> <<"m">>, label2 |-> S_Material],
       [text |-> Q_provides_filtered, var1 |-> <<"s">>, label1 |-> S_Supplier,
        type |-> S_PROVIDES, var2 |-> <<"m">>, label2 |-> S_Material] >>

LabelOf(id) == IF DictHas(nodes, id) THEN DictGet(nodes, id).label ELSE <<>>

RelationshipBindings(q) ==
    LET kept == SelectSeq(relationships, LAMBDA r :
                    /\ r.type = q.type
                    /\ DictHas(nodes, r.from) /\ LabelOf(r.from) = q.label1
                    /\ DictHas(nodes, r.to) /\ LabelOf(r.to) = q.label2)
    IN [i \in 1..Len(kept) |->
           (q.var1 :> (DictGet(nodes, kept[i].from).properties @@ (S_id :> kept[i].from)))
           @@ (q.var2 :> (DictGet(nodes, kept[i].to).properties @@ (S_id :> kept[i].to)))
           @@ (S_relationship :> q.type)]

\* C8: a two-node query returns, in relationship creation order, one binding
\* {v1: source, v2: target, relationship: T} for each stored relationship of
\* type T from a node labelled L1 to a node labelled L2; filters written in
\* the node patterns change nothing.
C8_TwoNodeQuery ==
    call.op = "execute_cypher" =>
        \A i \in 1..Len(TwoNodeQueries) :
            call.query = TwoNodeQueries[i].text
            => ret = RelationshipBindings(TwoNodeQueries[i])

\* the query with filters returned both PROVIDES relationships, one of them
\* from a supplier the filter does not describe
C8_Witness ==
    /\ call.op = "execute_cypher"
    /\ call.query = Q_provides_filtered
    /\ Len(ret) = 2
    /\ ret[1][<<"s">>][S_id] = Str(S_SUP001)

(***************************************************************************)
(* The store traced: create_node, create_relationship and                  *)
(* trace_supply_chain                                                      *)
(***************************************************************************)
P_PROD001 == (S_id :> Str(S_PROD001))
P_FAC001 == (S_id :> Str(S_FAC001)) @@ (S_location :> Str(S_Florence_Italy))
P_FAC002 == (S_id :> Str(S_FAC002)) @@ (S_location :> Str(S_Como_Italy))
P_CERT001 == (S_id :> Str(S_CERT001))

TraceNodeInputs ==
    << <<S_Product, P_PROD001>>,
       <<S_Factory, P_FAC001>>,
       <<S_Factory, P_FAC002>>,
       <<S_Certification, P_CERT001>> >>

TraceRelInputs ==
    << <<Str(S_FAC001), Str(S_PROD001), S_MANUFACTURES, PyNone>>,
       <<Str(S_FAC002), Str(S_PROD001), S_MANUFACTURES, PyNone>>,
       <<Str(S_FAC001), Str(S_CERT001), S_HAS_CERTIFICATION, PyNone>>,
       <<Str(S_FAC002), Str(S_CERT001), S_HAS_CERTIFICATION, PyNone>> >>

TraceProductIds == <<Str(S_PROD001), Str(S_PROD999), Str(S_FAC001)>>

TraceCreateNode ==
    /\ node_counter < TraceMaxCounter
    /\ \E i \in 1..Len(TraceNodeInputs) :
           create_node(TraceNodeInputs[i][1], TraceNodeInputs[i][2])

TraceCreateRelationship ==
    /\ Len(relationships) < TraceMaxRels
    /\ \E i \in 1..Len(TraceRelInputs) :
           create_relationship(TraceRelInputs[i][1], TraceRelInputs[i][2],
                               TraceRelInputs[i][3], TraceRelInputs[i][4])

TraceSupplyChain ==
    \E i \in 1..Len(TraceProductIds) : trace_supply_chain(TraceProductIds[i])

NextTrace ==
    \/ TraceCreateNode
    \/ TraceCreateRelationship
    \/ TraceSupplyChain

SpecTrace == InitQuery /\ [][NextTrace]_vars

(***************************************************************************)
(* Properties of trace_supply_chain                                        *)
(***************************************************************************)
\* the positions of the MANUFACTURES relationships into a product
Manufacturing(product_id) ==
    {i \in 1..Len(relationships) :
        relationships[i].type = S_MANUFACTURES /\ relationships[i].to = product_id}

\* the factory a trace resolves: the source of the first of them
ResolvedFactory(product_id) ==
    relationships[CHOOSE i \in Manufacturing(product_id) :
                      \A k \in Manufacturing(product_id) : i <= k].from

IsTrace == call.op = "trace_supply_chain" /\ "factory" \in DOMAIN ret

\* C3: when several MANUFACTURES relationships target the product, the
\* factory of the trace is the properties of the source of the first of them
\* in creation order; no later one changes it.
C3_FirstFactoryWins ==
    (IsTrace /\ Manufacturing(call.product_id) # {})
    => ret.factory = DictGet(nodes, ResolvedFactory(call.product_id)).properties

\* C4: the certifications of a trace are the properties of the targets of the
\* HAS_CERTIFICATION relationships from the resolved factory, in creation
\* order, duplicates kept, and nothing else.
C4_CertificationsOfResolvedFactory ==
    (IsTrace /\ Manufacturing(call.product_id) # {})
    => LET kept == SelectSeq(relationships, LAMBDA r :
                       /\ r.type = S_HAS_CERTIFICATION
                       /\ r.from = ResolvedFactory(call.product_id))
       IN ret.certifications
            = [i \in 1..Len(kept) |-> DictGet(nodes, kept[i].to).properties]


TraceFields == {"product", "factory", "materials", "suppliers", "certifications"}

\* C12: a trace of an id that is not in the store returns a record with an
\* error field and none of the trace fields; a trace of an id that is in the
\* store returns a record with the five trace fields and no error field.
C12_NotFoundIsDistinct ==
    call.op = "trace_supply_chain"
    => IF DictHas(nodes, call.product_id)
       THEN DOMAIN ret = TraceFields
       ELSE DOMAIN ret = {"error"}

C12_Witness ==
    /\ call.op = "trace_supply_chain"
    /\ call.product_id = Str(S_PROD999)
    /\ nodes # <<>>
    /\ "error" \in DOMAIN ret

\* C13: the trace of a product in the store that no MANUFACTURES relationship
\* targets has factory None and empty materials, suppliers and
\* certifications, whatever the relationships of the store.
C13_NoManufacturerIsEmpty ==
    (IsTrace /\ Manufacturing(call.product_id) = {})
    => /\ ret.factory = PyNone
       /\ ret.materials = <<>>
       /\ ret.suppliers = <<>>
       /\ ret.certifications = <<>>

C13_Witness ==
    /\ IsTrace
    /\ call.product_id = Str(S_FAC001)
    /\ \E i \in 1..Len(relationships) :
           relationships[i].type = S_MANUFACTURES /\ relationships[i].from = Str(S_FAC001)
    /\ \E i \in 1..Len(relationships) :
           relationships[i].type = S_HAS_CERTIFICATION /\ relationships[i].from = Str(S_FAC001)
    /\ ret.factory = PyNone
    /\ ret.certifications = <<>>


(***************************************************************************)
(* Snapshots: a store that is built, exported, cleared and imported again. *)
(***************************************************************************)
SnapMaxCounter == 2
SnapMaxRels == 1

S_Supplier_0 == S_Supplier \o S_underscore \o <<"0">>

SnapNodeInputs ==
    << <<S_Supplier, EmptyDict>>,
       <<S_Supplier, P_SUP002>>,
       <<S_Material, P_MAT001>> >>

SnapRelInputs ==
    << <<Str(S_SUP002), Str(S_MAT001), S_PROVIDES, P_since>>,
       <<Str(S_Supplier_0), Str(S_MAT001), S_PROVIDES, PyNone>> >>

SnapCreateNode ==
    /\ node_counter < SnapMaxCounter
    /\ \E i \in 1..Len(SnapNodeInputs) :
           create_node(SnapNodeInputs[i][1], SnapNodeInputs[i][2])

SnapCreateRelationship ==
    /\ Len(relationships) < SnapMaxRels
    /\ \E i \in 1..Len(SnapRelInputs) :
           create_relationship(SnapRelInputs[i][1], SnapRelInputs[i][2],
                               SnapRelInputs[i][3], SnapRelInputs[i][4])

ExportToJson == \E p \in Paths : export_to_json(p)

NextSnapshot ==
    \/ SnapCreateNode
    \/ SnapCreateRelationship
    \/ Clear
    \/ ExportToJson
    \/ ImportFromJson

SpecSnapshot == InitQuery /\ [][NextSnapshot]_vars

\* C11: a create_node call whose properties carry no id returns an id that
\* no node of the store had before the call, so the call adds one node and
\* overwrites none.
C11_SynthesizedIdIsFresh ==
    [][(call'.op = "create_node" /\ ~(S_id \in DOMAIN call'.properties))
          => (~DictHas(nodes, ret') /\ Len(nodes') = Len(nodes) + 1)]_vars


(***************************************************************************)
(* Lineage: a store loaded from an exported snapshot of a populated graph, *)
(* extended by a few creations, and traced.                                *)
(***************************************************************************)
LineageMaxCounter == 2
LineageMaxRels == 8

S_Supplier_5 == S_Supplier \o S_underscore \o <<"5">>
S_Supplier_6 == S_Supplier \o S_underscore \o <<"6">>
S_Factory_0 == S_Factory \o S_underscore \o <<"0">>

P_PROD002 == (S_id :> Str(S_PROD002))
P_MAT002 == (S_id :> Str(S_MAT002)) @@ (S_name :> Str(S_Florence))
P_anonymous_Florence == (S_name :> Str(S_Florence))
P_anonymous_Como == (S_name :> Str(S_Como_Italy))

\* the nodes every snapshot holds: two products, a factory, two materials
LineageNodes ==
    << SnapshotNode(S_PROD001, S_Product, P_PROD001),
       SnapshotNode(S_PROD002, S_Product, P_PROD002),
       SnapshotNode(S_FAC001, S_Factory, P_FAC001),
       SnapshotNode(S_MAT001, S_Material, P_MAT001),
       SnapshotNode(S_MAT002, S_Material, P_MAT002) >>

\* the factory makes PROD001 from both materials; the first supplier
\* provides the first material, the second supplier both
LineageRels(first, second) ==
    << SnapshotRel(S_FAC001, S_PROD001, S_MANUFACTURES),
       SnapshotRel(S_MAT001, S_FAC001, S_SUPPLIED_TO),
       SnapshotRel(S_MAT002, S_FAC001, S_SUPPLIED_TO),
       SnapshotRel(first, S_MAT001, S_PROVIDES),
       SnapshotRel(second, S_MAT001, S_PROVIDES),
       SnapshotRel(second, S_MAT002, S_PROVIDES) >>

\* what export_to_json writes for such a graph: with suppliers created with
\* an explicit id, and with suppliers created without one
LineageFiles ==
    << FileObject([nodes |-> LineageNodes
                             \o << SnapshotNode(S_SUP001, S_Supplier, P_SUP001),
                                   SnapshotNode(S_SUP002, S_Supplier, P_SUP002) >>,
                   relationships |-> LineageRels(S_SUP001, S_SUP002)]),
       FileObject([nodes |-> LineageNodes
                             \o << SnapshotNode(S_Supplier_5, S_Supplier, P_anonymous_Florence),
                                   SnapshotNode(S_Supplier_6, S_Supplier, P_anonymous_Como) >>,
                   relationships |-> LineageRels(S_Supplier_5, S_Supplier_6)]) >>

LineageNodeInputs ==
    << <<S_Factory, EmptyDict>>,
       <<S_Factory, P_FAC002>> >>

LineageRelInputs ==
    << <<Str(S_Factory_0), Str(S_PROD002), S_MANUFACTURES, PyNone>>,
       <<Str(S_FAC002), Str(S_PROD002), S_MANUFACTURES, PyNone>>,
       <<Str(S_MAT001), Str(S_Factory_0), S_SUPPLIED_TO, PyNone>>,
       <<Str(S_MAT001), Str(S_FAC002), S_SUPPLIED_TO, PyNone>> >>

LineageProductIds == <<Str(S_PROD001), Str(S_PROD002)>>

InitLineage ==
    /\ InitStore
    /\ \E i \in 1..Len(LineageFiles) : fs = [p \in Paths |-> LineageFiles[i]]
    /\ exported = [p \in Paths |-> PyNone]

LineageCreateNode ==
    /\ node_counter < LineageMaxCounter
    /\ \E i \in 1..Len(LineageNodeInputs) :
           create_node(LineageNodeInputs[i][1], LineageNodeInputs[i][2])

LineageCreateRelationship ==
    /\ Len(relationships) < LineageMaxRels
    /\ \E i \in 1..Len(LineageRelInputs) :
           create_relationship(LineageRelInputs[i][1], LineageRelInputs[i][2],
                               LineageRelInputs[i][3], LineageRelInputs[i][4])

LineageTrace ==
    \E i \in 1..Len(LineageProductIds) : trace_supply_chain(LineageProductIds[i])

NextLineage ==
    \/ ImportFromJson
    \/ LineageCreateNode
    \/ LineageCreateRelationship
    \/ LineageTrace

SpecLineage == InitLineage /\ [][NextLineage]_vars

\* the SUPPLIED_TO relationships into the factory a trace resolves
SuppliedTo(product_id) ==
    SelectSeq(relationships, LAMBDA r :
        r.type = S_SUPPLIED_TO /\ r.to = ResolvedFactory(product_id))

\* the properties of the sources of the PROVIDES relationships into a material
ProvidersOf(material_id) ==
    LET kept == SelectSeq(relationships, LAMBDA r :
                    r.type = S_PROVIDES /\ r.to = material_id)
    IN [i \in 1..Len(kept) |-> DictGet(nodes, kept[i].from).properties]

\* C14: when a MANUFACTURES relationship targets the product, the materials
\* of the trace are one record for each SUPPLIED_TO relationship into the
\* resolved factory, in creation order, each holding the properties of the
\* relationship's source node, whatever the properties of the factory.
C14_MaterialsOfResolvedFactory ==
    (IsTrace /\ Manufacturing(call.product_id) # {})
    => LET kept == SuppliedTo(call.product_id)
       IN /\ Len(ret.materials) = Len(kept)
          /\ \A j \in 1..Len(kept) :
                LET properties == DictGet(nodes, kept[j].from).properties
                IN /\ DOMAIN ret.materials[j] = DOMAIN properties \cup {S_suppliers}
                   /\ \A k \in DOMAIN properties \ {S_suppliers} :
                          ret.materials[j][k] = properties[k]

\* C15: the suppliers field of each material record of a trace is the
\* sequence of the properties of the sources of the PROVIDES relationships
\* into that material, in creation order.
C15_SuppliersPerMaterial ==
    (IsTrace /\ ret.materials # <<>>)
    => LET kept == SuppliedTo(call.product_id)
       IN /\ Len(ret.materials) = Len(kept)
          /\ \A j \in 1..Len(kept) :
                ret.materials[j][S_suppliers] = ProvidersOf(kept[j].from)

C15_Witness ==
    /\ IsTrace
    /\ Len(ret.materials) = 2
    /\ Len(ret.materials[1][S_suppliers]) = 2
    /\ Len(ret.materials[2][S_suppliers]) = 1
    /\ ret.materials[1][S_suppliers][2] = ret.materials[2][S_suppliers][1]

\* the ids of the sources of the PROVIDES relationships into a material
ProviderIds(material_id) ==
    LET kept == SelectSeq(relationships, LAMBDA r :
                    r.type = S_PROVIDES /\ r.to = material_id)
    IN [i \in 1..Len(kept) |-> kept[i].from]

\* the supplier nodes of the materials of a trace, material after material
RECURSIVE FlattenedProviderIds(_)
FlattenedProviderIds(supplied) ==
    IF supplied = <<>> THEN <<>>
    ELSE ProviderIds(Head(supplied).from) \o FlattenedProviderIds(Tail(supplied))

\* a sequence without the later occurrences of its elements
RECURSIVE FirstOccurrences(_)
FirstOccurrences(seq) ==
    IF seq = <<>> THEN <<>>
    ELSE LET front == FirstOccurrences(SubSeq(seq, 1, Len(seq) - 1))
         IN IF \E i \in 1..Len(front) : front[i] = seq[Len(seq)]
            THEN front
            ELSE Append(front, seq[Len(seq)])

\* C16: the aggregate suppliers of a trace hold every supplier node of the
\* flattened per-material supplier lists exactly once, at the place of its
\* first occurrence there; a supplier that provides two materials is kept
\* once.
C16_AggregateFirstSeen ==
    (IsTrace /\ ret.materials # <<>>)
    => LET ids == FirstOccurrences(FlattenedProviderIds(SuppliedTo(call.product_id)))
       IN ret.suppliers = [i \in 1..Len(ids) |-> DictGet(nodes, ids[i]).properties]


(***************************************************************************)
(* Reads: a store under construction, listed by get_all_nodes and          *)
(* _get_node_relationships.                                                *)
(***************************************************************************)
ReadMaxCounter == 3
ReadMaxRels == 2

ReadNodeInputs ==
    << <<S_Supplier, P_SUP001>>,
       <<S_Supplier, P_SUP002>>,
       <<S_Material, P_MAT001>>,
       <<S_Supplier, P_SUP001_again>>,
       <<S_Material, P_SUP001_again>> >>

ReadRelInputs ==
    << <<Str(S_SUP001), Str(S_MAT001), S_PROVIDES, P_since>>,
       <<Str(S_SUP002), Str(S_MAT001), S_PROVIDES, PyNone>>,
       <<Str(S_MAT001), Str(S_SUP001), S_SUPPLIED_TO, PyNone>>,
       <<Str(S_SUP001), Str(S_SUP001), S_PROVIDES, PyNone>> >>

ReadLabels == <<PyNone, S_Supplier, S_Material, S_Factory>>

ReadNodeIds == <<Str(S_SUP001), Str(S_MAT001), Str(S_PROD999)>>

ReadRelTypes == << <<>>, <<S_PROVIDES>>, <<S_SUPPLIED_TO, S_MANUFACTURES>> >>

ReadCreateNode ==
    /\ node_counter < ReadMaxCounter
    /\ \E i \in 1..Len(ReadNodeInputs) :
           create_node(ReadNodeInputs[i][1], ReadNodeInputs[i][2])

ReadCreateRelationship ==
    /\ Len(relationships) < ReadMaxRels
    /\ \E i \in 1..Len(ReadRelInputs) :
           create_relationship(ReadRelInputs[i][1], ReadRelInputs[i][2],
                               ReadRelInputs[i][3], ReadRelInputs[i][4])

GetAllNodes == \E i \in 1..Len(ReadLabels) : get_all_nodes(ReadLabels[i])

GetNodeRelationships ==
    \E i \in 1..Len(ReadNodeIds), j \in 1..Len(ReadRelTypes) :
        _get_node_relationships(ReadNodeIds[i], ReadRelTypes[j])

GetSchema == get_schema

NextRead ==
    \/ ReadCreateNode
    \/ ReadCreateRelationship
    \/ GetAllNodes
    \/ GetNodeRelationships
    \/ GetSchema

SpecRead == InitQuery /\ [][NextRead]_vars

\* the ids of the store, in the order of its entries
NodeIds(d) == [i \in 1..Len(d) |-> d[i].key]

\* the nodes of a label, each as its properties with its id, in entry order
NodesOfLabel(d, label) ==
    LET kept == SelectSeq(d, LAMBDA e : e.value.label = label)
    IN [i \in 1..Len(kept) |-> kept[i].value.properties @@ (S_id :> kept[i].key)]

PassesFilter(rel_type, rel_types) ==
    rel_types = <<>> \/ rel_type \in {rel_types[i] : i \in 1..Len(rel_types)}

\* the name property of a node if it has one, else its id
DisplayNameOf(node_id) ==
    LET properties == DictGet(nodes, node_id).properties
    IN IF S_name \in DOMAIN properties THEN properties[S_name] ELSE node_id

\* C18: _get_node_relationships(node_id, rel_types) returns in outgoing one
\* record for each relationship from node_id whose type passes the filter
\* and in incoming one record for each relationship to node_id whose type
\* passes it, both in creation order; a record carries the type and the
\* other endpoint's id, label and display name.
C18_RelationshipsOfNode ==
    call.op = "_get_node_relationships"
    => LET out == SelectSeq(relationships, LAMBDA r :
                      r.from = call.node_id /\ PassesFilter(r.type, call.rel_types))
           inc == SelectSeq(relationships, LAMBDA r :
                      r.to = call.node_id /\ PassesFilter(r.type, call.rel_types))
       IN /\ ret.outgoing =
                 [i \in 1..Len(out) |->
                     [type |-> out[i].type, to |-> out[i].to,
                      to_label |-> DictGet(nodes, out[i].to).label,
                      to_name |-> DisplayNameOf(out[i].to)]]
          /\ ret.incoming =
                 [i \in 1..Len(inc) |->
                     [type |-> inc[i].type, from |-> inc[i].from,
                      from_label |-> DictGet(nodes, inc[i].from).label,
                      from_name |-> DisplayNameOf(inc[i].from)]]

C18_Witness ==
    /\ call.op = "_get_node_relationships"
    /\ call.node_id = Str(S_SUP001)
    /\ call.rel_types = <<S_PROVIDES>>
    /\ \E i \in 1..Len(relationships) :
           relationships[i].to = Str(S_SUP001) /\ relationships[i].type = S_SUPPLIED_TO
    /\ Len(ret.outgoing) = 1
    /\ ret.outgoing[1].to_name = Str(S_Como_Italy)
    /\ ret.incoming = <<>>

WellFormed(file) ==
    file.kind = "object" /\ {"nodes", "relationships"} \subseteq DOMAIN file.val

\* C20: import_from_json of a well-formed snapshot leaves the store with the
\* nodes and relationships of the snapshot and nothing else: a node that was
\* in the store and is not in the snapshot is gone, and so is a relationship.
C20_ImportReplaces ==
    [][(call'.op = "import_from_json" /\ WellFormed(fs[call'.filepath]))
          => LET snapshot == fs[call'.filepath].val
             IN /\ raised' = NoException
                /\ nodes' = snapshot.nodes
                /\ relationships' = snapshot.relationships
                /\ \A i \in 1..Len(nodes) :
                       ~DictHas(snapshot.nodes, nodes[i].key)
                           => ~DictHas(nodes', nodes[i].key)
                /\ \A i \in 1..Len(relationships) :
                       (\A j \in 1..Len(snapshot.relationships) :
                            snapshot.relationships[j] # relationships[i])
                           => \A j \in 1..Len(relationships') :
                                  relationships'[j] # relationships[i]]_vars

C20_Witness ==
    /\ call.op = "import_from_json"
    /\ raised = NoException
    /\ WellFormed(fs[call.filepath])
    /\ node_counter >= 1
    /\ NodeIds(nodes) = <<Str(S_FAC001), Str(S_PROD001)>>
    /\ Len(relationships) = 1


\* a file that does not hold a snapshot: text that is not JSON, a document
\* that is not an object, or an object without one of the two fields
Malformed(file) ==
    \/ file.kind \in {"garbage", "list"}
    \/ file.kind = "object" /\ ~({"nodes", "relationships"} \subseteq DOMAIN file.val)

\* C21: import_from_json of a malformed snapshot raises and leaves the nodes
\* and the relationships of the store as they were.
C21_MalformedImportAborts ==
    [][(call'.op = "import_from_json" /\ Malformed(fs[call'.filepath]))
          => /\ raised' # NoException
             /\ nodes' = nodes
             /\ relationships' = relationships]_vars

(***************************************************************************)
(* Properties of get_schema and clear                                      *)
(***************************************************************************)
\* the elements of a list
Elements(l) == {l[i] : i \in 1..Len(l)}

\* C23: get_schema reports the number of nodes and of relationships of the
\* store, the labels of the nodes now in the store and the types of the
\* stored relationships, each once and no other.
C23_SchemaOfCurrentContents ==
    call.op = "get_schema"
    => /\ ret.node_count = Len(nodes)
       /\ ret.relationship_count = Len(relationships)
       /\ Elements(ret.node_labels) = {nodes[i].value.label : i \in 1..Len(nodes)}
       /\ Len(ret.node_labels) = Cardinality(Elements(ret.node_labels))
       /\ Elements(ret.relationship_types)
              = {relationships[i].type : i \in 1..Len(relationships)}
       /\ Len(ret.relationship_types) = Cardinality(Elements(ret.relationship_types))

C23_Witness ==
    /\ call.op = "get_schema"
    /\ node_counter = 3
    /\ NodeIds(nodes) = <<Str(S_SUP001), Str(S_MAT001)>>
    /\ nodes[1].value.label = S_Material
    /\ Elements(ret.node_labels) = {S_Material}
    /\ ret.node_count = 2
    /\ ret.relationship_types = <<S_PROVIDES>>


\* C24: clear leaves the store with no nodes, no relationships and the
\* counter 0, and the first create_node after it that carries no id returns
\* the label followed by _0, as in a store just constructed.
C24_ClearResets ==
    [][/\ call'.op = "clear"
           => (nodes' = <<>> /\ relationships' = <<>> /\ node_counter' = 0)
       /\ (call.op = "clear" /\ call'.op = "create_node"
              /\ ~(S_id \in DOMAIN call'.properties))
           => ret' = Str(call'.label \o S_underscore \o <<"0">>)]_vars

C24_Witness ==
    /\ call.op = "create_node"
    /\ ret = Str(S_Supplier_0)
    /\ node_counter = 1
    /\ \E p \in Paths :
           /\ exported[p] # PyNone
           /\ Len(exported[p].nodes) = 2
           /\ Len(exported[p].relationships) = 1
           /\ DictHas(exported[p].nodes, Str(S_Supplier_0))
    /\ NodeIds(nodes) = <<Str(S_Supplier_0)>>
    /\ relationships = <<>>


\* C25: every supplier that a material record of a trace lists is also in
\* the aggregate suppliers of the trace.
C25_NoSupplierDropped ==
    IsTrace
    => \A j \in 1..Len(ret.materials) :
          \A k \in 1..Len(ret.materials[j][S_suppliers]) :
             \E i \in 1..Len(ret.suppliers) :
                ret.suppliers[i] = ret.materials[j][S_suppliers][k]


(***************************************************************************)
(* Returned records.  trace_supply_chain puts the properties dicts of the  *)
(* store itself into its result (product, factory); the material records   *)
(* are copies, and get_all_nodes, execute_cypher and                       *)
(* _get_node_relationships build new dicts.  A caller that sets a key of a *)
(* returned record, as _general_search does with '_type', writes into the  *)
(* dict the record is.                                                     *)
(***************************************************************************)
S__type ==
    <<"_", "t", "y", "p", "e">>
S_s ==
    <<"s">>

\* the node whose properties trace['factory'] is: the source of the last
\* MANUFACTURES relationship into the product whose source exists
trace_factory_node(product_id) ==
    LET hits == {i \in 1..Len(relationships) :
                    /\ trace_manufactures(relationships[i], product_id)
                    /\ DictHas(nodes, relationships[i].from)}
    IN IF hits = {} THEN PyNone
       ELSE relationships[CHOOSE i \in hits : \A k \in hits : k <= i].from

ReturnedTargets == {"product", "factory", "material", "node", "binding", "outgoing"}

\* the last call returned a record of that kind
returned_has(target) ==
    CASE target = "product" ->
             call.op = "trace_supply_chain" /\ "product" \in DOMAIN ret
      [] target = "factory" ->
             /\ call.op = "trace_supply_chain"
             /\ "factory" \in DOMAIN ret
             /\ ret.factory # PyNone
      [] target = "material" ->
             /\ call.op = "trace_supply_chain"
             /\ "materials" \in DOMAIN ret
             /\ ret.materials # <<>>
      [] target = "node" -> call.op = "get_all_nodes" /\ ret # <<>>
      [] target = "binding" ->
             call.op = "execute_cypher" /\ ret # <<>> /\ S_s \in DOMAIN ret[1]
      [] target = "outgoing" ->
             call.op = "_get_node_relationships" /\ ret.outgoing # <<>>
      [] OTHER -> FALSE

\* the node whose properties dict the returned record is, or None when the
\* record is a dict of its own
returned_reference(target) ==
    CASE target = "product" -> call.product_id
      [] target = "factory" -> trace_factory_node(call.product_id)
      [] OTHER -> PyNone

\* d[key] = value
set_item(d, key, value) == (key :> value) @@ d

\* the returned value after record['_type'] = value
returned_with_field(target, value) ==
    CASE target = "product" ->
             [ret EXCEPT !.product = set_item(@, S__type, value)]
      [] target = "factory" ->
             [ret EXCEPT !.factory = set_item(@, S__type, value)]
      [] target = "material" ->
             [ret EXCEPT !.materials[1] = set_item(@, S__type, value)]
      [] target = "node" ->
             [ret EXCEPT ![1] = set_item(@, S__type, value)]
      [] target = "binding" ->
             [ret EXCEPT ![1][S_s] = set_item(@, S__type, value)]
      [] OTHER -> ret

\* the node map after record['_type'] = value
store_with_field(target, value) ==
    IF returned_reference(target) = PyNone
    THEN nodes
    ELSE LET nid == returned_reference(target)
             node == DictGet(nodes, nid)
         IN DictSet(nodes, nid,
                [label |-> node.label,
                 properties |-> set_item(node.properties, S__type, value)])

caller_adds_field(target, value) ==
    /\ returned_has(target)
    /\ call' = [op |-> "caller_adds_field", target |-> target]
    /\ ret' = returned_with_field(target, value)
    /\ nodes' = store_with_field(target, value)
    /\ raised' = NoException
    /\ UNCHANGED <<relationships, node_counter, fs, exported, wf>>

CallerMaxCounter == 3
CallerMaxRels == 2

CallerNodeInputs ==
    << <<S_Product, P_PROD001>>,
       <<S_Factory, P_FAC001>>,
       <<S_Material, P_MAT001>>,
       <<S_Supplier, P_SUP001>> >>

CallerRelInputs ==
    << <<Str(S_FAC001), Str(S_PROD001), S_MANUFACTURES, PyNone>>,
       <<Str(S_MAT001), Str(S_FAC001), S_SUPPLIED_TO, PyNone>>,
       <<Str(S_SUP001), Str(S_MAT001), S_PROVIDES, PyNone>> >>

CallerQueries == <<Q_suppliers, Q_provides>>

CallerLabels == <<PyNone, S_Product>>

CallerCreateNode ==
    /\ node_counter < CallerMaxCounter
    /\ \E i \in 1..Len(CallerNodeInputs) :
           create_node(CallerNodeInputs[i][1], CallerNodeInputs[i][2])

CallerCreateRelationship ==
    /\ Len(relationships) < CallerMaxRels
    /\ \E i \in 1..Len(CallerRelInputs) :
           create_relationship(CallerRelInputs[i][1], CallerRelInputs[i][2],
                               CallerRelInputs[i][3], CallerRelInputs[i][4])

CallerExecuteCypher ==
    \E i \in 1..Len(CallerQueries) : execute_cypher(CallerQueries[i])

CallerTrace == trace_supply_chain(Str(S_PROD001))

CallerGetAllNodes == \E i \in 1..Len(CallerLabels) : get_all_nodes(CallerLabels[i])

CallerGetNodeRelationships == _get_node_relationships(Str(S_FAC001), <<>>)

CallerAddsField ==
    \E target \in ReturnedTargets : caller_adds_field(target, Str(S_Product))

NextCaller ==
    \/ CallerCreateNode
    \/ CallerCreateRelationship
    \/ CallerExecuteCypher
    \/ CallerTrace
    \/ CallerGetAllNodes
    \/ CallerGetNodeRelationships
    \/ GetSchema
    \/ CallerAddsField

SpecCaller == InitQuery /\ [][NextCaller]_vars

ReadOperations ==
    {"execute_cypher", "trace_supply_chain", "_get_node_relationships",
     "get_all_nodes", "get_schema"}

\* C22: a read operation leaves the node map, the relationship list and the
\* counter as they were, and so does a caller that adds a field to a record
\* the read operation returned.
C22_ReadsLeaveStoreUnchanged ==
    [][(call'.op \in ReadOperations \/ call'.op = "caller_adds_field")
          => UNCHANGED <<nodes, relationships, node_counter>>]_vars

(***************************************************************************)
(* certification_validator.py: string literals                             *)
(***************************************************************************)
S_High ==
    <<"H", "i", "g", "h">>
S_Medium ==
    <<"M", "e", "d", "i", "u", "m">>
S_Low ==
    <<"L", "o", "w">>
S_high ==
    <<"h", "i", "g", "h">>
S_pending ==
    <<"p", "e", "n", "d", "i", "n", "g">>
S_approved ==
    <<"a", "p", "p", "r", "o", "v", "e", "d">>
S_rejected ==
    <<"r", "e", "j", "e", "c", "t", "e", "d">>
S_auto_approved ==
    <<"a", "u", "t", "o", "_", "a", "p", "p", "r", "o", "v", "e", "d">>
S_error ==
    <<"e", "r", "r", "o", "r">>
S_approve ==
    <<"a", "p", "p", "r", "o", "v", "e">>
S_valid_until ==
    <<"v", "a", "l", "i", "d", "_", "u", "n", "t", "i", "l">>
S_type ==
    <<"t", "y", "p", "e">>
S_issuing_body ==
    <<"i", "s", "s", "u", "i", "n", "g", "_", "b", "o", "d", "y">>
S_verification_url ==
    <<"v", "e", "r", "i", "f", "i", "c", "a", "t", "i", "o", "n", "_", "u", "r", "l">>
S_Unknown ==
    <<"U", "n", "k", "n", "o", "w", "n">>
S_Not_provided ==
    <<"N", "o", "t", " ", "p", "r", "o", "v", "i", "d", "e", "d">>
S_Certification_ ==
    <<"C", "e", "r", "t", "i", "f", "i", "c", "a", "t", "i", "o", "n", " ">>
S_Unable_to_parse ==
    <<"U", "n", "a", "b", "l", "e", " ", "t", "o", " ", "p", "a", "r", "s", "e", " ", "A", "I", " ", "r", "e", "s", "p", "o", "n", "s", "e">>
S_JSON_parsing_error ==
    <<"J", "S", "O", "N", " ", "p", "a", "r", "s", "i", "n", "g", " ", "e", "r", "r", "o", "r">>
S_Certification_has_expired ==
    <<"C", "e", "r", "t", "i", "f", "i", "c", "a", "t", "i", "o", "n", " ", "h", "a", "s", " ", "e", "x", "p", "i", "r", "e", "d">>
S_Not_required ==
    <<"N", "o", "t", " ", "r", "e", "q", "u", "i", "r", "e", "d", " ", "-", " ", "H", "i", "g", "h", " ", "c", "o", "n", "f", "i", "d", "e", "n", "c", "e">>
S_Approved_after ==
    <<"A", "p", "p", "r", "o", "v", "e", "d", " ", "a", "f", "t", "e", "r", " ", "m", "a", "n", "u", "a", "l", " ", "v", "e", "r", "i", "f", "i", "c", "a", "t", "i", "o", "n">>
S_Rejected_requires ==
    <<"R", "e", "j", "e", "c", "t", "e", "d", " ", "-", " ", "r", "e", "q", "u", "i", "r", "e", "s", " ", "f", "u", "r", "t", "h", "e", "r", " ", "i", "n", "v", "e", "s", "t", "i", "g", "a", "t", "i", "o", "n">>
S_Concerns_ ==
    <<"C", "o", "n", "c", "e", "r", "n", "s", ":", " ">>
S_comma_space ==
    <<",", " ">>
S_KeyError_confidence_level ==
    <<"'", "c", "o", "n", "f", "i", "d", "e", "n", "c", "e", "_", "l", "e", "v", "e", "l", "'">>
S_KeyError_assessment ==
    <<"'", "a", "s", "s", "e", "s", "s", "m", "e", "n", "t", "'">>
S_KeyError_concerns ==
    <<"'", "c", "o", "n", "c", "e", "r", "n", "s", "'">>
S_TypeError_list ==
    <<"l", "i", "s", "t", " ", "i", "n", "d", "i", "c", "e", "s", " ", "m", "u", "s", "t", " ", "b", "e", " ", "i", "n", "t", "e", "g", "e", "r", "s", " ", "o", "r", " ", "s", "l", "i", "c", "e", "s", ",", " ", "n", "o", "t", " ", "s", "t", "r">>
S_Looks_current ==
    <<"L", "o", "o", "k", "s", " ", "c", "u", "r", "r", "e", "n", "t">>
S_Issuer_unverified ==
    <<"I", "s", "s", "u", "e", "r", " ", "u", "n", "v", "e", "r", "i", "f", "i", "e", "d">>
S_Verify_certification ==
    <<"V", "e", "r", "i", "f", "y", " ", "c", "e", "r", "t", "i", "f", "i", "c", "a", "t", "i", "o", "n">>
S_Made_in_Italy ==
    <<"M", "a", "d", "e", " ", "i", "n", " ", "I", "t", "a", "l", "y">>
S_CERT002 ==
    <<"C", "E", "R", "T", "0", "0", "2">>
S_CERT003 ==
    <<"C", "E", "R", "T", "0", "0", "3">>
S_CERT004 ==
    <<"C", "E", "R", "T", "0", "0", "4">>
S_CERT005 ==
    <<"C", "E", "R", "T", "0", "0", "5">>
S_CERT999 ==
    <<"C", "E", "R", "T", "9", "9", "9">>
S_2025_12_31 ==
    <<"2", "0", "2", "5", "-", "1", "2", "-", "3", "1">>
S_2026_11_01 ==
    <<"2", "0", "2", "6", "-", "1", "1", "-", "0", "1">>
S_2027_03_15 ==
    <<"2", "0", "2", "7", "-", "0", "3", "-", "1", "5">>
S_2025_2_30 ==
    <<"2", "0", "2", "5", "-", "2", "-", "3", "0">>
S_31_12_2025 ==
    <<"3", "1", "/", "1", "2", "/", "2", "0", "2", "5">>
S_Approved_by_auditor ==
    <<"A", "p", "p", "r", "o", "v", "e", "d", " ", "b", "y", " ", "a", "u", "d", "i", "t", "o", "r">>
S_Reject ==
    <<"R", "e", "j", "e", "c", "t">>
S_confidence_level ==
    <<"c", "o", "n", "f", "i", "d", "e", "n", "c", "e", "_", "l", "e", "v", "e", "l">>
S_assessment ==
    <<"a", "s", "s", "e", "s", "s", "m", "e", "n", "t">>
S_concerns ==
    <<"c", "o", "n", "c", "e", "r", "n", "s">>
S_newlines_Concerns_ == <<"\n", "\n">> \o S_Concerns_

(***************************************************************************)
(* Python values and helpers the certification workflow uses               *)
(***************************************************************************)
\* a Python list (a JSON array) of strings
List(l) == [kind |-> "list", val |-> l]

\* bool(v)
truthy(v) ==
    CASE v.kind = "None" -> FALSE
      [] v.kind = "int" -> v.val # 0
      [] OTHER -> v.val # <<>>

\* a or b
py_or(a, b) == IF truthy(a) THEN a ELSE b

\* d.get(key, default)
dict_get(d, key, default) == IF key \in DOMAIN d THEN d[key] ELSE default

\* the lower-case letter of each upper-case letter
LowerOf ==
    [c \in {Uppercase[i] : i \in 1..26} |->
        Lowercase[CHOOSE i \in 1..26 : Uppercase[i] = c]]

\* str.lower()
lower(s) ==
    [k \in 1..Len(s) |-> IF s[k] \in DOMAIN LowerOf THEN LowerOf[s[k]] ELSE s[k]]

\* sub in s, for two strings
str_in(sub, s) ==
    \E i \in 0..(Len(s) - Len(sub)) : SubSeq(s, i + 1, i + Len(sub)) = sub

\* sep.join(l)
RECURSIVE join(_, _)
join(sep, l) ==
    IF l = <<>> THEN <<>>
    ELSE IF Len(l) = 1 THEN l[1]
    ELSE l[1] \o sep \o join(sep, Tail(l))

\* int(s) for a string of at most four decimal digits
DigitValue(c) == CHOOSE n \in 0..9 : Digit(n) = c
int_str(s) ==
    LET n == Len(s)
        place(k, weight) == IF n >= k THEN weight * DigitValue(s[n - k + 1]) ELSE 0
    IN place(1, 1) + place(2, 10) + place(3, 100) + place(4, 1000)

(***************************************************************************)
(* datetime.strptime(value, "%Y-%m-%d") and datetime comparison            *)
(***************************************************************************)
all_digits(s) == \A k \in 1..Len(s) : s[k] \in Digits

is_leap(year) == year % 4 = 0 /\ (year % 100 # 0 \/ year % 400 = 0)

days_in_month(year, month) ==
    IF month = 2 THEN (IF is_leap(year) THEN 29 ELSE 28)
    ELSE IF month \in {4, 6, 9, 11} THEN 30 ELSE 31

\* %Y: (?P<Y>\d\d\d\d)
strptime_Y(p) == Len(p) = 4 /\ all_digits(p)
\* %m: (?P<m>1[0-2]|0[1-9]|[1-9])
strptime_m(p) == Len(p) \in {1, 2} /\ all_digits(p) /\ int_str(p) \in 1..12
\* %d: (?P<d>3[0-1]|[1-2]\d|0[1-9]|[1-9]| [1-9])
strptime_d(p) ==
    \/ Len(p) \in {1, 2} /\ all_digits(p) /\ int_str(p) \in 1..31
    \/ Len(p) = 2 /\ p[1] = " " /\ p[2] \in (Digits \ {"0"})
strptime_day(p) == IF p[1] = " " THEN DigitValue(p[2]) ELSE int_str(p)

datetime(year, month, day, second) ==
    [year |-> year, month |-> month, day |-> day, second |-> second]

\* the fields of a string with exactly two "-": what is before the first,
\* between the two and after the second; <<>> for any other string
strptime_fields(s) ==
    LET dashes == {k \in 1..Len(s) : s[k] = "-"}
    IN IF Cardinality(dashes) # 2
       THEN <<>>
       ELSE LET first == CHOOSE k \in dashes : \A other \in dashes : k <= other
                second == CHOOSE k \in dashes : \A other \in dashes : k >= other
            IN <<SubSeq(s, 1, first - 1), SubSeq(s, first + 1, second - 1),
                 SubSeq(s, second + 1, Len(s))>>

\* the three fields must match %Y, %m and %d and name a day of the calendar
strptime_parts(parts) ==
    IF /\ Len(parts) = 3
       /\ strptime_Y(parts[1])
       /\ strptime_m(parts[2])
       /\ strptime_d(parts[3])
       /\ int_str(parts[1]) >= 1
       /\ strptime_day(parts[3])
              <= days_in_month(int_str(parts[1]), int_str(parts[2]))
    THEN [raised |-> NoException,
          value |-> datetime(int_str(parts[1]), int_str(parts[2]),
                             strptime_day(parts[3]), 0)]
    ELSE [raised |-> "ValueError"]

\* the whole string must match the three fields joined by "-"; a value that
\* is not a string is a TypeError
strptime(value) ==
    IF value.kind # "str" THEN [raised |-> "TypeError"]
    ELSE CHOOSE parsed \in {strptime_parts(parts) :
                                parts \in {strptime_fields(value.val)}} : TRUE

\* a < b for two datetimes
datetime_lt(a, b) ==
    \/ a.year < b.year
    \/ a.year = b.year /\ a.month < b.month
    \/ a.year = b.year /\ a.month = b.month /\ a.day < b.day
    \/ a.year = b.year /\ a.month = b.month /\ a.day = b.day
          /\ a.second < b.second

(***************************************************************************)
(* CertificationValidator._assess_certification                            *)
(*                                                                         *)
(* The content of the model's reply is an input, described by what         *)
(* json.loads makes of it: text that is not JSON, a JSON value that is not *)
(* an object, or an object with the keys it happens to carry.              *)
(***************************************************************************)
InvalidJSON == [json |-> "invalid"]
JSONArray == [json |-> "array"]
JSONObject(d) == [json |-> "object", val |-> d]

\* json.loads(response), and the dict that stands in when it raises
\* JSONDecodeError
parse_assessment(response) ==
    IF response.json = "invalid"
    THEN JSONObject((S_confidence_level :> Str(S_Low))
                    @@ (S_assessment :> Str(S_Unable_to_parse))
                    @@ (S_concerns :> List(<<S_JSON_parsing_error>>)))
    ELSE response

\* mutant: the expiry date is compared with nothing
is_expired_Never(cert_data, now) == FALSE

\* "valid_until" in cert_data, strptime succeeds and valid_until < now
is_expired(cert_data, now) ==
    /\ S_valid_until \in DOMAIN cert_data
    /\ LET valid_until == strptime(cert_data[S_valid_until])
       IN /\ valid_until.raised = NoException
          /\ datetime_lt(valid_until.value, now)

\* assessment["confidence_level"] = "Low" and
\* assessment["concerns"].append(...), under the bare except: what the first
\* exception leaves behind is kept
mark_expired(assessment) ==
    IF assessment.json # "object"
    THEN assessment
    ELSE LET forced == set_item(assessment.val, S_confidence_level, Str(S_Low))
         IN IF S_concerns \in DOMAIN forced /\ forced[S_concerns].kind = "list"
            THEN JSONObject(set_item(forced, S_concerns,
                     List(Append(forced[S_concerns].val,
                                 S_Certification_has_expired))))
            ELSE JSONObject(forced)

\* assessment["confidence_level"] in ["Medium", "Low"]
requires_human_review(confidence_level) ==
    confidence_level = Str(S_Medium) \/ confidence_level = Str(S_Low)

\* state["ai_assessment"], with the concerns appended when there are any
assessment_text(assessment) ==
    IF truthy(assessment[S_concerns])
    THEN Str(assessment[S_assessment].val \o S_newlines_Concerns_
             \o join(S_comma_space, assessment[S_concerns].val))
    ELSE assessment[S_assessment]

\* lines 136-142: the state is updated from the assessment; the outcome is
\* the exception's message in raised, or the new state
update_state(state, assessment) ==
    IF assessment.json # "object"
    THEN [raised |-> S_TypeError_list]
    ELSE IF S_confidence_level \notin DOMAIN assessment.val
    THEN [raised |-> S_KeyError_confidence_level]
    ELSE IF S_assessment \notin DOMAIN assessment.val
    THEN [raised |-> S_KeyError_assessment]
    ELSE IF S_concerns \notin DOMAIN assessment.val
    THEN [raised |-> S_KeyError_concerns]
    ELSE [raised |-> <<>>,
          state |-> [state EXCEPT
              !.confidence_level = assessment.val[S_confidence_level],
              !.ai_assessment = assessment_text(assessment.val),
              !.requires_human_review =
                  requires_human_review(assessment.val[S_confidence_level])]]

\* lines 114-133: the reply is parsed and, for an expired certification,
\* marked
assessment_of(cert_data, response, now) ==
    IF is_expired(cert_data, now)
    THEN mark_expired(parse_assessment(response))
    ELSE parse_assessment(response)

_assess_certification(state, response, now) ==
    CHOOSE outcome \in
        {update_state(state, assessment) :
            assessment \in {assessment_of(state.certification_data,
                                          response, now)}} : TRUE

(***************************************************************************)
(* The other nodes of the workflow                                         *)
(***************************************************************************)
_should_request_human_review(state) ==
    IF state.requires_human_review THEN "human_review" ELSE "auto_approve"

_auto_approve(state) ==
    [state EXCEPT !.validation_status = Str(S_auto_approved),
                  !.human_feedback = Str(S_Not_required)]

_request_human_review(state) ==
    [state EXCEPT !.validation_status = Str(S_pending)]

\* mutant: a review without feedback stays undecided
simulated_decision_Undecided(state) == state

\* the simulated human decision, taken when no feedback was supplied
simulated_decision(state) ==
    IF state.confidence_level = Str(S_Medium)
    THEN [state EXCEPT !.validation_status = Str(S_approved),
                       !.human_feedback = Str(S_Approved_after)]
    ELSE [state EXCEPT !.validation_status = Str(S_rejected),
                       !.human_feedback = Str(S_Rejected_requires)]

\* "approve" in state["human_feedback"].lower()
feedback_approves(human_feedback) == str_in(S_approve, lower(human_feedback.val))

_process_human_feedback(state) ==
    IF truthy(state.human_feedback) /\ state.human_feedback # Str(<<>>)
    THEN IF feedback_approves(state.human_feedback)
         THEN [state EXCEPT !.validation_status = Str(S_approved)]
         ELSE [state EXCEPT !.validation_status = Str(S_rejected)]
    ELSE simulated_decision(state)

_finalize_result(state) ==
    LET cert_data == state.certification_data
    IN [state EXCEPT !.final_result =
           [certification_name |-> dict_get(cert_data, S_name, Str(S_Unknown)),
            certification_type |-> dict_get(cert_data, S_type, Str(S_Unknown)),
            validation_status |-> state.validation_status,
            confidence_level |-> state.confidence_level,
            ai_assessment |-> state.ai_assessment,
            human_feedback |-> state.human_feedback,
            issuing_body |-> dict_get(cert_data, S_issuing_body, Str(S_Unknown)),
            valid_until |-> dict_get(cert_data, S_valid_until, Str(S_Unknown)),
            verification_url |->
                dict_get(cert_data, S_verification_url, Str(S_Not_provided))]]

(***************************************************************************)
(* CertificationValidator._create_workflow: the edges of the graph         *)
(***************************************************************************)
\* the conditional edge out of assess_certification
assess_certification_edge(state) ==
    IF _should_request_human_review(state) = "human_review"
    THEN "request_human_review"
    ELSE "auto_approve"

workflow_edge(node, state) ==
    CASE node = "assess_certification" -> assess_certification_edge(state)
      [] node = "auto_approve" -> "finalize_result"
      [] node = "request_human_review" -> "process_human_feedback"
      [] node = "process_human_feedback" -> "finalize_result"
      [] node = "finalize_result" -> "END"

\* A node ran and returned new_state: the graph moves along the node's edge.
\* wf.path lists the nodes that ran.
node_returned(node, new_state) ==
    [wf EXCEPT !.pc = workflow_edge(node, new_state),
               !.state = new_state,
               !.path = Append(@, node)]

\* A node raised: app.invoke raises in turn.
node_raised(node, message) ==
    [wf EXCEPT !.pc = "raised", !.error = message, !.path = Append(@, node)]

assess_certification(response, now) ==
    /\ wf.pc = "assess_certification"
    /\ \E outcome \in {_assess_certification(wf.state, response, now)} :
           wf' = IF outcome.raised # <<>>
                 THEN node_raised("assess_certification", outcome.raised)
                 ELSE node_returned("assess_certification", outcome.state)
    /\ UNCHANGED <<nodes, relationships, node_counter, fs, exported, call, ret,
                   raised>>

auto_approve ==
    /\ wf.pc = "auto_approve"
    /\ wf' = node_returned("auto_approve", _auto_approve(wf.state))
    /\ UNCHANGED <<nodes, relationships, node_counter, fs, exported, call, ret,
                   raised>>

request_human_review ==
    /\ wf.pc = "request_human_review"
    /\ wf' = node_returned("request_human_review",
                           _request_human_review(wf.state))
    /\ UNCHANGED <<nodes, relationships, node_counter, fs, exported, call, ret,
                   raised>>

process_human_feedback ==
    /\ wf.pc = "process_human_feedback"
    /\ wf' = node_returned("process_human_feedback",
                           _process_human_feedback(wf.state))
    /\ UNCHANGED <<nodes, relationships, node_counter, fs, exported, call, ret,
                   raised>>

finalize_result ==
    /\ wf.pc = "finalize_result"
    /\ wf' = node_returned("finalize_result", _finalize_result(wf.state))
    /\ UNCHANGED <<nodes, relationships, node_counter, fs, exported, call, ret,
                   raised>>

(***************************************************************************)
(* CertificationValidator.validate_certification                           *)
(*                                                                         *)
(* The call looks the certification up and starts the workflow;            *)
(* app.invoke runs the nodes above one after the other, and the call       *)
(* returns once the graph reached END or a node raised.  The calls are     *)
(* synchronous: none starts while another is running.  After the return    *)
(* wf keeps the state of the finished run, as the checkpointer does.       *)
(***************************************************************************)
WorkflowAtRest == wf.pc \in {"idle", "returned"}

\* f"Certification {certification_id} not found"
not_found_message(certification_id) ==
    S_Certification_ \o certification_id.val \o S__not_found

initial_state(query, cert_data, human_feedback) ==
    [query |-> query,
     certification_data |-> cert_data,
     confidence_level |-> Str(<<>>),
     validation_status |-> Str(S_pending),
     ai_assessment |-> Str(<<>>),
     human_feedback |-> py_or(human_feedback, Str(<<>>)),
     final_result |-> EmptyDict,
     requires_human_review |-> FALSE]

validate_certification(query, certification_id, human_feedback) ==
    /\ WorkflowAtRest
    /\ call' = [op |-> "validate_certification", query |-> query,
                certification_id |-> certification_id,
                human_feedback |-> human_feedback]
    /\ raised' = NoException
    /\ IF ~DictHas(nodes, certification_id)
       THEN /\ ret' = [error |-> Str(not_found_message(certification_id)),
                       validation_status |-> Str(S_error)]
            /\ wf' = WorkflowIdle
       ELSE /\ ret' = PyNone
            /\ wf' = [pc |-> "assess_certification",
                      state |-> initial_state(query,
                                    DictGet(nodes, certification_id).properties,
                                    human_feedback),
                      path |-> <<>>,
                      error |-> <<>>,
                      outcome |-> "running"]
    /\ UNCHANGED <<nodes, relationships, node_counter, fs, exported>>

\* return result["final_result"], or the error result of the except branch;
\* wf.outcome tells which
validate_certification_returns ==
    /\ wf.pc \in {"END", "raised"}
    /\ ret' = IF wf.pc = "END"
              THEN wf.state.final_result
              ELSE [error |-> Str(wf.error), validation_status |-> Str(S_error)]
    /\ wf' = [wf EXCEPT !.pc = "returned", !.outcome = wf.pc]
    /\ UNCHANGED <<nodes, relationships, node_counter, fs, exported, call,
                   raised>>
(***************************************************************************)
(* Certification runs: certifications are created, then validated          *)
(***************************************************************************)
CertMaxCounter == 2

P_CERT(id, valid_until) ==
    (S_id :> Str(id)) @@ (S_name :> Str(S_Made_in_Italy))
    @@ (S_valid_until :> valid_until)
P_CERT_undated == (S_id :> Str(S_CERT004)) @@ (S_name :> Str(S_Made_in_Italy))

\* expired, still valid, expiring on the current day, a day that does not
\* exist, another date format, and no date at all
CertNodeInputs ==
    << <<S_Certification, P_CERT(S_CERT001, Str(S_2025_12_31))>>,
       <<S_Certification, P_CERT(S_CERT002, Str(S_2027_03_15))>>,
       <<S_Certification, P_CERT(S_CERT003, Str(S_2026_11_01))>>,
       <<S_Certification, P_CERT(S_CERT001, Str(S_2025_2_30))>>,
       <<S_Certification, P_CERT(S_CERT002, Str(S_31_12_2025))>>,
       <<S_Certification, P_CERT_undated>> >>

CertificationIds ==
    <<Str(S_CERT001), Str(S_CERT002), Str(S_CERT003), Str(S_CERT004),
      Str(S_CERT999)>>

HumanFeedbacks ==
    <<PyNone, Str(<<>>), Str(S_Approved_by_auditor), Str(S_Reject)>>

Assessment(confidence_level, concerns) ==
    (S_confidence_level :> confidence_level)
    @@ (S_assessment :> Str(S_Looks_current))
    @@ (S_concerns :> concerns)

\* what the model may reply: the three levels it was asked for, another
\* spelling of a level, objects that lack a key or carry null for the
\* concerns, a JSON array, and text that is not JSON
Responses ==
    <<JSONObject(Assessment(Str(S_High), List(<<>>))),
      JSONObject(Assessment(Str(S_Medium), List(<<S_Issuer_unverified>>))),
      JSONObject(Assessment(Str(S_Low), List(<<S_Issuer_unverified>>))),
      JSONObject(Assessment(Str(S_high), List(<<>>))),
      JSONObject(Assessment(Str(S_High), PyNone)),
      JSONObject((S_confidence_level :> Str(S_High))
                 @@ (S_assessment :> Str(S_Looks_current))),
      JSONObject((S_assessment :> Str(S_Looks_current))
                 @@ (S_concerns :> List(<<>>))),
      JSONArray,
      InvalidJSON>>

\* datetime.now(): the current day, at midnight and later
Today == [year |-> 2026, month |-> 11, day |-> 1]
Nows ==
    <<datetime(Today.year, Today.month, Today.day, 0),
      datetime(Today.year, Today.month, Today.day, 1)>>

CertCreateNode ==
    /\ WorkflowAtRest
    /\ node_counter < CertMaxCounter
    /\ \E i \in 1..Len(CertNodeInputs) :
           create_node(CertNodeInputs[i][1], CertNodeInputs[i][2])

ValidateCertification ==
    \E i \in 1..Len(CertificationIds), j \in 1..Len(HumanFeedbacks) :
        validate_certification(S_Verify_certification, CertificationIds[i],
                               HumanFeedbacks[j])

AssessCertification ==
    \E i \in 1..Len(Responses), j \in 1..Len(Nows) :
        assess_certification(Responses[i], Nows[j])

\* what app.invoke does between the call and its return
WorkflowStep ==
    \/ AssessCertification
    \/ auto_approve
    \/ request_human_review
    \/ process_human_feedback
    \/ finalize_result
    \/ validate_certification_returns

NextCert ==
    \/ CertCreateNode
    \/ ValidateCertification
    \/ WorkflowStep

SpecCert == InitQuery /\ [][NextCert]_vars

\* app.invoke runs every node the graph schedules: a step that is due is
\* taken.
SpecCertLive == SpecCert /\ WF_vars(WorkflowStep)

(***************************************************************************)
(* Claims about the certification workflow                                 *)
(***************************************************************************)
\* validate_certification has just returned from a run of the workflow
RunReturned == wf.pc = "returned" /\ call.op = "validate_certification"

DecidedStatuses == {Str(S_auto_approved), Str(S_approved), Str(S_rejected)}

Ran(node) == \E k \in 1..Len(wf.path) : wf.path[k] = node

\* the run went through finalize_result and its result carries a decision
FinalizedAndDecided ==
    /\ Ran("finalize_result")
    /\ wf.path[Len(wf.path)] = "finalize_result"
    /\ ret = wf.state.final_result
    /\ ret.validation_status \in DecidedStatuses

\* C26: every run of the workflow ends: it either fails with an error or
\* reaches finalize_result and returns a result whose validation_status is
\* auto_approved, approved or rejected; no returned result has the status
\* pending.
C26_CompletedRunIsDecided ==
    /\ [](RunReturned =>
             /\ wf.outcome = "END" => FinalizedAndDecided
             /\ ret.validation_status # Str(S_pending))
    /\ (wf.pc = "assess_certification"
           ~> (RunReturned /\ (wf.outcome = "raised" \/ FinalizedAndDecided)))

\* a run that went through the human review returned a decision
C26_Witness ==
    /\ RunReturned
    /\ wf.outcome = "END"
    /\ Ran("process_human_feedback")
    /\ ret.validation_status = Str(S_rejected)

\* the run ended at END and validate_certification returned its final_result
RunCompleted == RunReturned /\ wf.outcome = "END"

\* C27: a certification is auto-approved only if the assessed
\* confidence_level is exactly "High"; with any other confidence value the
\* run goes through request_human_review and process_human_feedback.
C27_AutoApprovalOnlyForHigh ==
    RunCompleted =>
        /\ ret.validation_status = Str(S_auto_approved)
               => ret.confidence_level = Str(S_High)
        /\ ret.confidence_level # Str(S_High)
               => Ran("request_human_review") /\ Ran("process_human_feedback")

\* the valid_until of the certification is a date of the form %Y-%m-%d that
\* lies before the current day
ExpiredBeforeToday(cert_data) ==
    /\ S_valid_until \in DOMAIN cert_data
    /\ \E parsed \in {strptime(cert_data[S_valid_until])} :
           /\ parsed.raised = NoException
           /\ datetime_lt(parsed.value,
                          datetime(Today.year, Today.month, Today.day, 0))

\* C28: a certification whose valid_until is a well-formed date before the
\* current day is never auto-approved: the run ends with the error result, or
\* its confidence_level is "Low" and it went to the human review.
C28_ExpiredIsNeverAutoApproved ==
    (RunReturned /\ ExpiredBeforeToday(wf.state.certification_data)) =>
        /\ ~Ran("auto_approve")
        /\ ret.validation_status # Str(S_auto_approved)
        /\ \/ wf.outcome = "raised" /\ ret.validation_status = Str(S_error)
           \/ /\ wf.outcome = "END"
              /\ ret.confidence_level = Str(S_Low)
              /\ Ran("request_human_review")

\* an expired certification the model rated "High" with no concerns went to
\* the review and was approved there by the supplied feedback
C28_Witness ==
    /\ RunCompleted
    /\ ExpiredBeforeToday(wf.state.certification_data)
    /\ ret.confidence_level = Str(S_Low)
    /\ ret.validation_status = Str(S_approved)
    /\ ret.ai_assessment =
           Str(S_Looks_current \o S_newlines_Concerns_ \o S_Certification_has_expired)

\* C29: when non-empty human feedback is supplied for an existing
\* certification, the final validation_status is approved if the feedback
\* contains "approve" in any case and rejected otherwise, and the final
\* human_feedback is the supplied text.
C29_FeedbackDecides ==
    (RunCompleted /\ truthy(call.human_feedback)) =>
        /\ ret.validation_status =
               IF str_in(S_approve, lower(call.human_feedback.val))
               THEN Str(S_approved)
               ELSE Str(S_rejected)
        /\ ret.human_feedback = call.human_feedback

(***************************************************************************)
(* graph_rag_engine.py: GraphRAGEngine._execute_query_plan                 *)
(***************************************************************************)
S_intent ==
    <<"i", "n", "t", "e", "n", "t">>
S_entities ==
    <<"e", "n", "t", "i", "t", "i", "e", "s">>
S_filters ==
    <<"f", "i", "l", "t", "e", "r", "s">>
S_relationships ==
    <<"r", "e", "l", "a", "t", "i", "o", "n", "s", "h", "i", "p", "s">>
S_supplier ==
    <<"s", "u", "p", "p", "l", "i", "e", "r">>
S_material ==
    <<"m", "a", "t", "e", "r", "i", "a", "l">>
S_factory ==
    <<"f", "a", "c", "t", "o", "r", "y">>
S_certification ==
    <<"c", "e", "r", "t", "i", "f", "i", "c", "a", "t", "i", "o", "n">>
S_collection ==
    <<"c", "o", "l", "l", "e", "c", "t", "i", "o", "n">>
S_product ==
    <<"p", "r", "o", "d", "u", "c", "t">>
S_Collection ==
    <<"C", "o", "l", "l", "e", "c", "t", "i", "o", "n">>
S_find_suppliers ==
    <<"f", "i", "n", "d", "_", "s", "u", "p", "p", "l", "i", "e", "r", "s">>
S_general_query ==
    <<"g", "e", "n", "e", "r", "a", "l", "_", "q", "u", "e", "r", "y">>
S_italy ==
    <<"i", "t", "a", "l", "y">>
S_Paris ==
    <<"P", "a", "r", "i", "s">>
S_SUP003 ==
    <<"S", "U", "P", "0", "0", "3">>
S_SUP004 ==
    <<"S", "U", "P", "0", "0", "4">>
S_Milan_Italy ==
    <<"M", "i", "l", "a", "n", ",", " ", "I", "t", "a", "l", "y">>

\* a == b for two values that are strings, integers or None
py_eq(a, b) == a.kind = b.kind /\ (a.kind = "None" \/ a.val = b.val)

\* x in l, for a list l
list_in(x, l) == \E i \in 1..Len(l) : l[i] = x

\* the word looked for in the intent and the label looked for in the
\* entities, for each kind, in the order of the six tests
QueryKinds ==
    << <<S_supplier, S_Supplier>>,
       <<S_material, S_Material>>,
       <<S_factory, S_Factory>>,
       <<S_certification, S_Certification>>,
       <<S_collection, S_Collection>>,
       <<S_product, S_Product>> >>

\* one pair of a filter and a node: the two branches of the loop body
filter_rejects(node_value, value) ==
    IF node_value.kind = "str" /\ value.kind = "str"
    THEN ~str_in(lower(value.val), lower(node_value.val))
    ELSE ~py_eq(node_value, value)

_matches_filters(node, filters) ==
    \A key \in DOMAIN filters :
        ~filter_rejects(dict_get(node, key, Str(<<>>)), filters[key])

\* [n for n in nodes if self._matches_filters(n, filters)]
RECURSIVE matching_nodes(_, _)
matching_nodes(found, filters) ==
    IF found = <<>> THEN <<>>
    ELSE (IF _matches_filters(Head(found), filters) THEN <<Head(found)>> ELSE <<>>)
         \o matching_nodes(Tail(found), filters)

\* node['relationships'] = self._get_node_relationships(node['id'], rel_types)
with_relationships(node, rel_types) ==
    set_item(node, S_relationships,
             [outgoing |-> node_relationships_outgoing(1, node[S_id], rel_types),
              incoming |-> node_relationships_incoming(1, node[S_id], rel_types)])

\* _query_suppliers, _query_materials, _query_factories,
\* _query_certifications, _query_collections and _query_products differ in
\* the label only
_query_nodes(label, filters, rel_types) ==
    LET all == get_all_nodes_list(1, label)
        kept == IF filters # EmptyDict THEN matching_nodes(all, filters) ELSE all
    IN IF rel_types # <<>>
       THEN [i \in 1..Len(kept) |-> with_relationships(kept[i], rel_types)]
       ELSE kept

\* "supplier" in intent.lower() or "Supplier" in entities
kind_named(kind, intent, entities) ==
    str_in(kind[1], lower(intent)) \/ list_in(kind[2], entities)

\* the six tests in turn, from the k-th on, each extending the results
RECURSIVE query_kinds_from(_, _, _, _, _)
query_kinds_from(k, intent, entities, filters, rel_types) ==
    IF k > Len(QueryKinds) THEN <<>>
    ELSE (IF kind_named(QueryKinds[k], intent, entities)
          THEN _query_nodes(QueryKinds[k][2], filters, rel_types)
          ELSE <<>>)
         \o query_kinds_from(k + 1, intent, entities, filters, rel_types)

\* nodes[:3]
first_three(l) == SubSeq(l, 1, IF Len(l) < 3 THEN Len(l) ELSE 3)

\* the inner loop: node['_type'] = label for each of the first three
typed_nodes(label) ==
    LET found == first_three(get_all_nodes_list(1, label))
    IN [i \in 1..Len(found) |-> set_item(found[i], S__type, Str(label))]

\* _general_search, for the labels in the order get_schema listed them
RECURSIVE _general_search(_)
_general_search(node_labels) ==
    IF node_labels = <<>> THEN <<>>
    ELSE typed_nodes(Head(node_labels)) \o _general_search(Tail(node_labels))

\* if not results
general_search_needed(results) == results = <<>>

_execute_query_plan(query_plan) ==
    LET intent == dict_get(query_plan, S_intent, <<>>)
        entities == dict_get(query_plan, S_entities, <<>>)
        filters == dict_get(query_plan, S_filters, EmptyDict)
        rel_types == dict_get(query_plan, S_relationships, <<>>)
    IN /\ call' = [op |-> "_execute_query_plan", query_plan |-> query_plan]
       /\ \E results \in {query_kinds_from(1, intent, entities, filters, rel_types)} :
              IF general_search_needed(results)
              THEN \E node_labels \in ListsOf(get_schema_labels) :
                       ret' = _general_search(node_labels)
              ELSE ret' = results
       /\ raised' = NoException
       /\ UNCHANGED <<nodes, relationships, node_counter, fs, exported, wf>>

(***************************************************************************)
(* Query plans run against a small store                                   *)
(***************************************************************************)
PlanMaxCounter == 4
PlanMaxRels == 1

P_supplier(id, location) == (S_id :> Str(id)) @@ (S_location :> Str(location))
P_rated == (S_id :> Str(S_MAT001)) @@ (S_rating :> Num(5))

PlanNodeInputs ==
    << <<S_Supplier, P_supplier(S_SUP001, S_Florence_Italy)>>,
       <<S_Supplier, P_supplier(S_SUP002, S_Como_Italy)>>,
       <<S_Supplier, P_supplier(S_SUP003, S_Milan_Italy)>>,
       <<S_Supplier, P_supplier(S_SUP004, S_Florence_Italy)>>,
       <<S_Material, P_rated>> >>

PlanRelInputs ==
    << <<Str(S_SUP001), Str(S_MAT001), S_PROVIDES, PyNone>>,
       <<Str(S_MAT001), Str(S_SUP002), S_SUPPLIED_TO, PyNone>> >>

Plan(intent, entities, filters, rel_types) ==
    (S_intent :> intent) @@ (S_entities :> entities) @@ (S_filters :> filters)
    @@ (S_relationships :> rel_types)

\* a kind named by the intent; a kind named by the entities, with a filter
\* and relationship types; two kinds with a filter no node passes; a filter
\* on a number; the plan query() falls back on; a plan without any key
QueryPlans ==
    <<Plan(S_find_suppliers, <<>>, EmptyDict, <<>>),
      Plan(S_general_query, <<S_Supplier>>, (S_location :> Str(S_italy)),
           <<S_PROVIDES>>),
      Plan(S_general_query, <<S_Supplier, S_Material>>,
           (S_location :> Str(S_Paris)), <<>>),
      Plan(S_material, <<>>, (S_rating :> Num(5)), <<>>),
      Plan(S_general_query, <<>>, EmptyDict, <<>>),
      EmptyDict>>

PlanCreateNode ==
    /\ node_counter < PlanMaxCounter
    /\ \E i \in 1..Len(PlanNodeInputs) :
           create_node(PlanNodeInputs[i][1], PlanNodeInputs[i][2])

PlanCreateRelationship ==
    /\ Len(relationships) < PlanMaxRels
    /\ \E i \in 1..Len(PlanRelInputs) :
           create_relationship(PlanRelInputs[i][1], PlanRelInputs[i][2],
                               PlanRelInputs[i][3], PlanRelInputs[i][4])

ExecuteQueryPlan ==
    \E i \in 1..Len(QueryPlans) : _execute_query_plan(QueryPlans[i])

NextPlan ==
    \/ PlanCreateNode
    \/ PlanCreateRelationship
    \/ ExecuteQueryPlan

SpecPlan == InitQuery /\ [][NextPlan]_vars

\* the labels the plan of the last call names
NamedLabels ==
    LET intent == dict_get(call.query_plan, S_intent, <<>>)
        entities == dict_get(call.query_plan, S_entities, <<>>)
    IN {QueryKinds[k][2] : k \in {j \in 1..Len(QueryKinds) :
            \/ str_in(QueryKinds[j][1], lower(intent))
            \/ \E e \in 1..Len(entities) : entities[e] = QueryKinds[j][2]}}

\* a returned node passes every filter of the plan: a string filter is
\* contained, in any case, in the node's string; any other filter equals the
\* node's value
SatisfiesFilters(node, filters) ==
    \A key \in DOMAIN filters :
        LET value == filters[key]
            node_value == IF key \in DOMAIN node THEN node[key] ELSE Str(<<>>)
        IN IF node_value.kind = "str" /\ value.kind = "str"
           THEN str_in(lower(value.val), lower(node_value.val))
           ELSE node_value.kind = value.kind /\ node_value.val = value.val

\* C30: when the plan names at least one of the six kinds, every node
\* _execute_query_plan returns is a node of a named kind that satisfies the
\* plan's filters and does not come from the general search, also when no
\* node satisfies the filters.
C30_NamedKindsOnly ==
    (call.op = "_execute_query_plan" /\ NamedLabels # {}) =>
        \A i \in 1..Len(ret) :
            /\ DictHas(nodes, ret[i][S_id])
            /\ DictGet(nodes, ret[i][S_id]).label \in NamedLabels
            /\ SatisfiesFilters(ret[i],
                   dict_get(call.query_plan, S_filters, EmptyDict))
            /\ S__type \notin DOMAIN ret[i]

====
